---- MODULE Spec2Model ----
(***************************************************************************)
(* Verification model of the SafeSignal core (scheott/safe):               *)
(*   - URLFetcher            (src/src/services/url_fetcher.py)             *)
(*   - ReputationService     (src/src/services/reputation_service.py)      *)
(*   - Tier0Analyzer         (src/src/services/tier0_analyzer.py)          *)
(* The data ReputationService holds is modelled twice: as the contents of   *)
(* the data files for the lookups, and as mutable state for the reload.     *)
(* Text is modelled as sequences of one-character strings so that the      *)
(* regular expressions and string functions of the code can be computed.   *)
(***************************************************************************)
EXTENDS Integers, Sequences, FiniteSets, TLC

VARIABLES
    f_pc,            \* position of fetch_url: start, client, loop, await, body, done, raised
    f_url,           \* the argument of fetch_url
    current_url,     \* local current_url of fetch_url
    redirect_count,  \* local redirect_count of fetch_url
    gets,            \* history: the URLs handed to client.get, in order
    last_check,      \* history: the last application of _is_valid_url and its answer
    f_resp,          \* the last response received from client.get
    get_failed,      \* history: a client.get raised in this fetch
    body_read,       \* history: the response body stream was read
    f_result,        \* the FetchResult returned
    b_pc,            \* brand similarity calls made: start, found, scored
    b_domain,        \* the domain argument of find_similar_brands / get_brand_similarity_score
    b_similar,       \* the list returned by find_similar_brands
    b_score,         \* the dict returned by get_brand_similarity_score
    a_pc,            \* position of analyze: start, url, brand, content, tech, verdict, except, done
    a_url,           \* the url argument of analyze
    a_fetch,         \* the fetch_result argument of analyze
    a_content,       \* the content_excerpt argument of analyze
    a_weights,       \* heuristic_weights of the ReputationService the analyzer uses
    a_score,         \* local score of analyze
    a_reasons,       \* local reasons of analyze
    a_domain_score,  \* local domain_score of analyze
    a_result,        \* the AnalysisResult returned
    s_files,         \* what each data file holds when the reload reads it
    s_store,         \* the attributes of the ReputationService instance
    s_new_brands,    \* contents of the set object the reload builds for brand_domains
    l_pc,            \* position of the reload (hot_reload_if_needed / load_all_data)
    l_i,             \* loop position inside _build_lookup_caches
    l_result,        \* what the reload call returned
    q_pc,            \* position of the reader call in progress
    q_arg,           \* the argument of the reader call
    q_iter,          \* the set iterator of the reader's loop over brand_domains
    q_result,        \* what the reader call returned or raised
    n_pc,            \* normalize_url calls made: start, once, twice
    n_url,           \* the url argument of normalize_url
    n_once,          \* normalized_url of the first call
    n_twice          \* normalized_url of the call on n_once

fvars == <<f_pc, f_url, current_url, redirect_count, gets, last_check, f_resp,
           get_failed, body_read, f_result>>

bvars == <<b_pc, b_domain, b_similar, b_score>>

avars == <<a_pc, a_url, a_fetch, a_content, a_weights, a_score, a_reasons, a_domain_score, a_result>>

svars == <<s_files, s_store, s_new_brands, l_pc, l_i, l_result, q_pc, q_arg, q_iter, q_result>>

nvars == <<n_pc, n_url, n_once, n_twice>>

vars == <<fvars, bvars, avars, svars, nvars>>

\* the variables a fetch, a brand lookup and an analysis leave alone
NotFetch == <<bvars, avars, svars, nvars>>
NotBrand == <<fvars, avars, svars, nvars>>
NotAnalyze == <<fvars, bvars, svars, nvars>>
NotStore == <<fvars, bvars, avars, nvars>>
NotNormalize == <<fvars, bvars, avars, svars>>

\* no fetch in progress
FetchIdle ==
    /\ f_pc = "idle" /\ f_url = << >> /\ current_url = << >> /\ redirect_count = 0
    /\ gets = << >> /\ last_check = << >> /\ f_resp = << >> /\ get_failed = FALSE
    /\ body_read = FALSE /\ f_result = << >>

\* no brand lookup in progress
BrandIdle ==
    /\ b_pc = "idle" /\ b_domain = << >> /\ b_similar = << >> /\ b_score = << >>

\* no analysis in progress
AnalyzeIdle ==
    /\ a_pc = "idle" /\ a_url = << >> /\ a_fetch = << >> /\ a_content = << >>
    /\ a_weights = << >> /\ a_score = 0 /\ a_reasons = << >> /\ a_domain_score = 0 /\ a_result = << >>

\* no reload and no reader call under observation
StoreIdle ==
    /\ s_files = << >> /\ s_store = << >> /\ s_new_brands = {} /\ l_pc = "off" /\ l_i = 0
    /\ l_result = << >> /\ q_pc = "off" /\ q_arg = << >> /\ q_iter = << >> /\ q_result = << >>

\* no normalisation in progress
NormalizeIdle ==
    /\ n_pc = "idle" /\ n_url = << >> /\ n_once = << >> /\ n_twice = << >>

----------------------------------------------------------------------------
(* Text helpers *)

Digit(d) == CASE d = 0 -> "0" [] d = 1 -> "1" [] d = 2 -> "2" [] d = 3 -> "3"
              [] d = 4 -> "4" [] d = 5 -> "5" [] d = 6 -> "6" [] d = 7 -> "7"
              [] d = 8 -> "8" [] d = 9 -> "9" [] d = 10 -> "a" [] d = 11 -> "b"
              [] d = 12 -> "c" [] d = 13 -> "d" [] d = 14 -> "e" [] d = 15 -> "f"

RECURSIVE NumStr(_, _)
\* the digits of n in the given base, without leading zeros
NumStr(n, base) == IF n < base THEN <<Digit(n)>>
                   ELSE NumStr(n \div base, base) \o <<Digit(n % base)>>

StartsWith(s, p) == /\ Len(s) >= Len(p)
                    /\ \A i \in 1..Len(p) : s[i] = p[i]

----------------------------------------------------------------------------
(* Hosts and URLs handed to the fetcher *)

NoHost == [kind |-> "none"]

V4(a, b, c, d) == [kind |-> "v4", o |-> <<a, b, c, d>>]
V6(hi, lo)     == [kind |-> "v6", hi |-> hi, lo |-> lo]
Name(n)        == [kind |-> "name", name |-> n]

localhost   == <<"l","o","c","a","l","h","o","s","t">>
example_com == <<"e","x","a","m","p","l","e",".","c","o","m">>

\* the text urlparse(url).hostname yields for a host
HostString(h) ==
    CASE h.kind = "v4"   -> NumStr(h.o[1], 10) \o <<".">> \o NumStr(h.o[2], 10) \o <<".">>
                            \o NumStr(h.o[3], 10) \o <<".">> \o NumStr(h.o[4], 10)
      [] h.kind = "v6"   -> (IF h.hi = 0 THEN << >> ELSE NumStr(h.hi, 16))
                            \o <<":", ":">> \o NumStr(h.lo, 16)
      [] h.kind = "name" -> h.name
      [] h.kind = "none" -> << >>

\* the address ranges a fetch must never reach: 127/8, 10/8, 172.16/12,
\* 192.168/16, 169.254/16, ::1, fc00::/7 and the name localhost
InPrivateRange(h) ==
    CASE h.kind = "v4"   -> \/ h.o[1] = 127
                            \/ h.o[1] = 10
                            \/ (h.o[1] = 172 /\ h.o[2] >= 16 /\ h.o[2] <= 31)
                            \/ (h.o[1] = 192 /\ h.o[2] = 168)
                            \/ (h.o[1] = 169 /\ h.o[2] = 254)
      [] h.kind = "v6"   -> \/ (h.hi = 0 /\ h.lo = 1)
                            \/ (h.hi >= 64512 /\ h.hi <= 65023)
      [] h.kind = "name" -> h.name = localhost
      [] h.kind = "none" -> FALSE

Url(scheme, host) == [malformed |-> FALSE, scheme |-> scheme, host |-> host, path |-> "/"]

\* a string urlparse refuses with ValueError, such as "http://[bad"
MalformedUrl == [malformed |-> TRUE, scheme |-> "http", host |-> NoHost, path |-> "/"]

SecondOctets == {15, 16, 31, 32}

FetchHosts ==
    {V4(127, 0, 0, 1), V4(10, 0, 0, 5), V4(192, 168, 1, 1), V4(169, 254, 169, 254),
     V4(8, 8, 8, 8), V4(192, 169, 1, 1), V4(11, 0, 0, 1)}
    \cup {V4(172, b, 0, 1) : b \in SecondOctets}
    \cup {V6(0, 1), V6(64512, 1), V6(64513, 1), V6(64768, 1), V6(65023, 1),
          V6(65024, 1), V6(8193, 1)}
    \cup {Name(localhost), Name(example_com)}

FetchUrls ==
    {Url("https", h) : h \in FetchHosts}
    \cup {Url("http", Name(example_com)), Url("ftp", Name(example_com)),
          Url("https", NoHost), MalformedUrl}

----------------------------------------------------------------------------
(* URLFetcher *)

MAX_REDIRECTS_mut == 3 + 1

MAX_REDIRECTS == 3

Digits09 == {"0","1","2","3","4","5","6","7","8","9"}

\* re.match of the n-th entry of PRIVATE_IP_PATTERNS against host
MatchesPattern(n, host) ==
    CASE n = 1 -> StartsWith(host, <<"1","2","7",".">>)
      [] n = 2 -> StartsWith(host, <<"1","0",".">>)
      [] n = 3 -> /\ StartsWith(host, <<"1","7","2",".">>)
                  /\ Len(host) >= 7
                  /\ \/ (host[5] = "1" /\ host[6] \in {"6","7","8","9"})
                     \/ (host[5] = "2" /\ host[6] \in Digits09)
                     \/ (host[5] = "3" /\ host[6] \in {"0","1"})
                  /\ host[7] = "."
      [] n = 4 -> StartsWith(host, <<"1","9","2",".","1","6","8",".">>)
      [] n = 5 -> StartsWith(host, <<"1","6","9",".","2","5","4",".">>)
      [] n = 6 -> host = <<":",":","1">>
      [] n = 7 -> StartsWith(host, <<"f","c","0","0",":">>)

_is_private_ip(host) == \E n \in 1..7 : MatchesPattern(n, host)

_is_valid_url(url) ==
    IF url.malformed THEN FALSE                     \* urlparse raises, caught
    ELSE IF url.scheme \notin {"http", "https"} THEN FALSE
    ELSE IF url.host = NoHost THEN FALSE            \* empty netloc
    ELSE IF _is_private_ip(HostString(url.host)) THEN FALSE
    ELSE TRUE

NoReason == "<none>"

\* FetchResult with the dataclass defaults
FetchResult(success, final_url, status, reason, redirects, blocked) ==
    [success |-> success, final_url |-> final_url, status_code |-> status,
     error_reason |-> reason, redirect_count |-> redirects, was_blocked |-> blocked]

NoResult == FetchResult(FALSE, MalformedUrl, 0, "<pending>", 0, FALSE)
NoResponse == [status |-> 0, location |-> [kind |-> "none"], html |-> FALSE]
NoCheck == [url |-> MalformedUrl, ok |-> FALSE]

\* the Location header values a server may send
Locations ==
    {[kind |-> "none"], [kind |-> "relative"], [kind |-> "malformed"]}
    \cup {[kind |-> "absolute", url |-> u] :
            u \in {Url("https", Name(example_com)), Url("https", V4(192, 168, 1, 1)),
                   Url("https", Name(localhost)), Url("ftp", Name(example_com))}}

Statuses == {200, 300, 301, 302, 303, 304, 307, 308, 401, 403, 404, 429, 451, 500}

Responses == [status : Statuses, location : Locations, html : BOOLEAN]

GetExceptions == {"timeout_connect", "timeout_read", "timeout_other", "ConnectError"}

\* urljoin raises ValueError when urlparse refuses the location
UrljoinRaises(location) == location.kind = "malformed"

\* urljoin(current_url, location) for a location it accepts
urljoin(base, location) ==
    IF location.kind = "absolute" THEN location.url
    ELSE [base EXCEPT !.path = "/next"]

\* the handler of the try around the whole fetch (lines 310-318)
OuterExcept_mut(kind, cur, count) ==
    [pc |-> "raised", result |-> NoResult]

OuterExcept(kind, cur, count) ==
    [pc |-> "done",
     result |-> FetchResult(FALSE, cur, 0, "unexpected_error_" \o kind, count, FALSE)]

GetExcept_mut(e, cur, count) == FetchResult(FALSE, cur, 0, NoReason, count, FALSE)

\* the handlers of the try around client.get (lines 169-190)
GetExcept(e, cur, count) ==
    CASE e = "timeout_connect" -> FetchResult(FALSE, cur, 0, "fetch_timeout_stage_connect", count, FALSE)
      [] e = "timeout_read"    -> FetchResult(FALSE, cur, 0, "fetch_timeout_stage_read", count, FALSE)
      [] e = "timeout_other"   -> FetchResult(FALSE, cur, 0, "fetch_timeout_stage_unknown", count, FALSE)
      [] OTHER                 -> FetchResult(FALSE, cur, 0, "fetch_error_" \o e, count, FALSE)

FetchInit ==
    /\ BrandIdle
    /\ AnalyzeIdle
    /\ StoreIdle
    /\ NormalizeIdle
    /\ f_pc = "start"
    /\ f_url \in FetchUrls
    /\ current_url = MalformedUrl
    /\ redirect_count = 0
    /\ gets = << >>
    /\ last_check = NoCheck
    /\ f_resp = NoResponse
    /\ get_failed = FALSE
    /\ body_read = FALSE
    /\ f_result = NoResult

\* fetch_url, lines 115-127: validate the argument
FetchEntry ==
    /\ f_pc = "start"
    /\ last_check' = [url |-> f_url, ok |-> _is_valid_url(f_url)]
    /\ IF ~_is_valid_url(f_url)
       THEN /\ f_pc' = "done"
            /\ f_result' = FetchResult(FALSE, f_url, 0, "invalid_url", 0, FALSE)
            /\ UNCHANGED <<current_url, redirect_count>>
       ELSE /\ f_pc' = "client"
            /\ redirect_count' = 0
            /\ current_url' = f_url
            /\ UNCHANGED f_result
    /\ UNCHANGED <<f_url, gets, f_resp, get_failed, body_read>>
    /\ UNCHANGED NotFetch

\* lines 129-151: build the timeout configuration and the client
ClientCreate ==
    /\ f_pc = "client"
    /\ \E ok \in BOOLEAN :
         IF ok
         THEN /\ f_pc' = "loop"
              /\ UNCHANGED f_result
         ELSE LET h == OuterExcept("RuntimeError", current_url, redirect_count)
              IN  /\ f_pc' = h.pc
                  /\ f_result' = h.result
    /\ UNCHANGED <<f_url, current_url, redirect_count, gets, last_check, f_resp,
                   get_failed, body_read>>
    /\ UNCHANGED NotFetch

ValidateHop_mut(url, count) == IF count = 0 THEN _is_valid_url(url) ELSE TRUE

\* the validation at the head of every iteration (line 156)
ValidateHop(url, count) == _is_valid_url(url)

\* lines 154-168: loop test, validation of current_url, dispatch of the GET
LoopHead ==
    /\ f_pc = "loop"
    /\ IF redirect_count > MAX_REDIRECTS
       THEN /\ f_pc' = "done"                       \* lines 301-308
            /\ f_result' = FetchResult(FALSE, current_url, 0, "redirect_loop",
                                       redirect_count, FALSE)
            /\ UNCHANGED <<gets, last_check>>
       ELSE /\ last_check' = [url |-> current_url, ok |-> ValidateHop(current_url, redirect_count)]
            /\ IF ~ValidateHop(current_url, redirect_count)
               THEN /\ f_pc' = "done"
                    /\ f_result' = FetchResult(FALSE, current_url, 0, "blocked_by_ssrf",
                                               redirect_count, FALSE)
                    /\ UNCHANGED gets
               ELSE /\ f_pc' = "await"
                    /\ gets' = Append(gets, current_url)
                    /\ UNCHANGED f_result
    /\ UNCHANGED <<f_url, current_url, redirect_count, f_resp, get_failed, body_read>>
    /\ UNCHANGED NotFetch

\* lines 169-190: client.get raises
GetRaises ==
    /\ f_pc = "await"
    /\ \E e \in GetExceptions :
         /\ f_result' = GetExcept(e, current_url, redirect_count)
         /\ f_pc' = "done"
         /\ get_failed' = TRUE
    /\ UNCHANGED <<f_url, current_url, redirect_count, gets, last_check, f_resp, body_read>>
    /\ UNCHANGED NotFetch

RedirectStatuses == {301, 302, 303, 307, 308}

BLOCKED_STATUSES_mut == {403, 401}

\* the statuses answered with blocked_by_site (line 193)
BLOCKED_STATUSES == {403, 401, 451}

\* lines 192-299: client.get returns a response
GetResponds ==
    /\ f_pc = "await"
    /\ \E r \in Responses :
         /\ f_resp' = r
         /\ IF r.status \in BLOCKED_STATUSES
            THEN /\ f_pc' = "done"
                 /\ f_result' = FetchResult(FALSE, current_url, r.status, "blocked_by_site",
                                            redirect_count, TRUE)
                 /\ UNCHANGED <<current_url, redirect_count>>
            ELSE IF r.status = 429
            THEN /\ f_pc' = "done"
                 /\ f_result' = FetchResult(FALSE, current_url, r.status, "rate_limited",
                                            redirect_count, TRUE)
                 /\ UNCHANGED <<current_url, redirect_count>>
            ELSE IF r.status \in RedirectStatuses
            THEN IF r.location.kind = "none"
                 THEN \* break, then lines 301-308
                      /\ f_pc' = "done"
                      /\ f_result' = FetchResult(FALSE, current_url, 0, "redirect_loop",
                                                 redirect_count, FALSE)
                      /\ UNCHANGED <<current_url, redirect_count>>
                 ELSE IF UrljoinRaises(r.location)
                 THEN LET h == OuterExcept("ValueError", current_url, redirect_count)
                      IN  /\ f_pc' = h.pc
                          /\ f_result' = h.result
                          /\ UNCHANGED <<current_url, redirect_count>>
                 ELSE /\ current_url' = urljoin(current_url, r.location)
                      /\ redirect_count' = redirect_count + 1
                      /\ IF redirect_count + 1 > MAX_REDIRECTS
                         THEN /\ f_pc' = "done"
                              /\ f_result' = FetchResult(FALSE, current_url', 0,
                                                 "too_many_redirects", redirect_count + 1, FALSE)
                         ELSE /\ f_pc' = "loop"
                              /\ UNCHANGED f_result
            ELSE IF r.status = 200
            THEN /\ IF ~r.html
                    THEN /\ f_pc' = "done"
                         /\ f_result' = FetchResult(FALSE, current_url, r.status, "not_html",
                                                    redirect_count, FALSE)
                    ELSE /\ f_pc' = "body"
                         /\ UNCHANGED f_result
                 /\ UNCHANGED <<current_url, redirect_count>>
            ELSE /\ f_pc' = "done"
                 /\ f_result' = FetchResult(FALSE, current_url, r.status,
                                            "http_error_" \o ToString(r.status),
                                            redirect_count, FALSE)
                 /\ UNCHANGED <<current_url, redirect_count>>
    /\ UNCHANGED <<f_url, gets, last_check, get_failed, body_read>>
    /\ UNCHANGED NotFetch

\* lines 253-288: stream and decode the body, build the successful result
BodyRead ==
    /\ f_pc = "body"
    /\ body_read' = TRUE
    /\ f_pc' = "done"
    /\ \E ok \in BOOLEAN :
         f_result' = IF ok
                     THEN FetchResult(TRUE, current_url, f_resp.status, NoReason,
                                      redirect_count, FALSE)
                     ELSE FetchResult(FALSE, current_url, f_resp.status,
                                      "content_decode_error_ReadError", redirect_count, FALSE)
    /\ UNCHANGED <<f_url, current_url, redirect_count, gets, last_check, f_resp, get_failed>>
    /\ UNCHANGED NotFetch

FetchNext == FetchEntry \/ ClientCreate \/ LoopHead \/ GetRaises \/ GetResponds \/ BodyRead

SpecFetch == FetchInit /\ [][FetchNext]_vars

----------------------------------------------------------------------------
(* ReputationService: the data it serves *)

UpperCase == <<"A","B","C","D","E","F","G","H","I","J","K","L","M",
               "N","O","P","Q","R","S","T","U","V","W","X","Y","Z">>
LowerCase == <<"a","b","c","d","e","f","g","h","i","j","k","l","m",
               "n","o","p","q","r","s","t","u","v","w","x","y","z">>
Letters == {LowerCase[i] : i \in 1..26}

\* str.lower on one character and on a string
LowerChar(c) == IF \E i \in 1..26 : UpperCase[i] = c
                THEN LowerCase[CHOOSE i \in 1..26 : UpperCase[i] = c]
                ELSE c
Lower(s) == [i \in 1..Len(s) |-> LowerChar(s[i])]
LowerAll(labels) == [i \in 1..Len(labels) |-> Lower(labels[i])]

CharSet(s) == {s[i] : i \in 1..Len(s)}
LastN(s, n) == SubSeq(s, Len(s) - n + 1, Len(s))
EndsWith(s, p) == Len(s) >= Len(p) /\ LastN(s, Len(p)) = p
Min(a, b) == IF a <= b THEN a ELSE b
Max(a, b) == IF a >= b THEN a ELSE b
Abs(a) == IF a >= 0 THEN a ELSE 0 - a

www == <<"w","w","w">>

\* brand_domains as _build_lookup_caches builds it from brand_domains.json
\* (create_data_structure.py, completed by verify_and_fix_data.py); a domain is
\* the sequence of its labels
brand_domains == {
    <<<<"c","h","a","s","e">>, <<"c","o","m">>>>,
    <<<<"b","a","n","k","o","f","a","m","e","r","i","c","a">>, <<"c","o","m">>>>,
    <<<<"w","e","l","l","s","f","a","r","g","o">>, <<"c","o","m">>>>,
    <<<<"c","i","t","i","b","a","n","k">>, <<"c","o","m">>>>,
    <<<<"u","s","b","a","n","k">>, <<"c","o","m">>>>,
    <<<<"c","a","p","i","t","a","l","o","n","e">>, <<"c","o","m">>>>,
    <<<<"p","n","c">>, <<"c","o","m">>>>, <<<<"t","r","u","i","s","t">>, <<"c","o","m">>>>,
    <<<<"d","i","s","c","o","v","e","r">>, <<"c","o","m">>>>,
    <<<<"a","m","e","r","i","c","a","n","e","x","p","r","e","s","s">>, <<"c","o","m">>>>,
    <<<<"v","i","s","a">>, <<"c","o","m">>>>,
    <<<<"m","a","s","t","e","r","c","a","r","d">>, <<"c","o","m">>>>,
    <<<<"g","o","o","g","l","e">>, <<"c","o","m">>>>,
    <<<<"m","i","c","r","o","s","o","f","t">>, <<"c","o","m">>>>,
    <<<<"a","p","p","l","e">>, <<"c","o","m">>>>,
    <<<<"a","m","a","z","o","n">>, <<"c","o","m">>>>,
    <<<<"f","a","c","e","b","o","o","k">>, <<"c","o","m">>>>,
    <<<<"n","e","t","f","l","i","x">>, <<"c","o","m">>>>,
    <<<<"a","d","o","b","e">>, <<"c","o","m">>>>, <<<<"i","r","s">>, <<"g","o","v">>>>,
    <<<<"s","s","a">>, <<"g","o","v">>>>,
    <<<<"m","e","d","i","c","a","r","e">>, <<"g","o","v">>>>,
    <<<<"u","s","p","s">>, <<"c","o","m">>>>, <<<<"d","m","v">>, <<"o","r","g">>>>,
    <<<<"t","r","e","a","s","u","r","y">>, <<"g","o","v">>>>,
    <<<<"u","p","s">>, <<"c","o","m">>>>, <<<<"f","e","d","e","x">>, <<"c","o","m">>>>,
    <<<<"d","h","l">>, <<"c","o","m">>>>, <<<<"p","a","y","p","a","l">>, <<"c","o","m">>>>,
    <<<<"v","e","n","m","o">>, <<"c","o","m">>>>,
    <<<<"c","a","s","h","a","p","p">>, <<"c","o","m">>>>,
    <<<<"z","e","l","l","e">>, <<"c","o","m">>>>,
    <<<<"w","e","s","t","e","r","n","u","n","i","o","n">>, <<"c","o","m">>>>,
    <<<<"m","o","n","e","y","g","r","a","m">>, <<"c","o","m">>>>,
    <<<<"t","a","r","g","e","t">>, <<"c","o","m">>>>,
    <<<<"w","a","l","m","a","r","t">>, <<"c","o","m">>>>,
    <<<<"e","b","a","y">>, <<"c","o","m">>>> }

\* suspicious_tlds as _build_lookup_caches builds it from suspicious_indicators.json
suspicious_tlds == {
    <<"t","k">>, <<"m","l">>, <<"g","a">>, <<"c","f">>, <<"t","o","p">>,
    <<"c","l","i","c","k">>, <<"d","o","w","n","l","o","a","d">>, <<"s","t","r","e","a","m">> }

dictionary_word_brands == {
    <<"a","p","p","l","e">>, <<"t","a","r","g","e","t">>, <<"c","h","a","s","e">>,
    <<"g","a","p">>, <<"s","h","e","l","l">>, <<"s","q","u","a","r","e">>, <<"m","i","n","t">>,
    <<"a","l","l","y">>, <<"d","i","s","c","o","v","e","r">>, <<"c","a","p","i","t","a","l">>,
    <<"v","i","r","g","i","n">>, <<"o","r","a","n","g","e">>, <<"s","p","r","i","n","t">> }

impersonation_keywords == {
    <<"s","u","p","p","o","r","t">>, <<"l","o","g","i","n">>, <<"v","e","r","i","f","y">>,
    <<"s","e","c","u","r","e">>, <<"u","p","d","a","t","e">>, <<"h","e","l","p">>,
    <<"b","i","l","l","i","n","g">>, <<"a","c","c","o","u","n","t">>,
    <<"p","o","r","t","a","l">>, <<"p","a","y">>, <<"w","a","l","l","e","t">>,
    <<"s","i","g","n","i","n">>, <<"a","u","t","h">>, <<"s","e","c","u","r","i","t","y">>,
    <<"s","e","r","v","i","c","e">>, <<"c","u","s","t","o","m","e","r">>,
    <<"o","f","f","i","c","i","a","l">>, <<"o","n","l","i","n","e">>,
    <<"a","c","c","e","s","s">> }

comprehensive_multi_tlds == {
    <<<<"c","o">>, <<"u","k">>>>, <<<<"c","o","m">>, <<"a","u">>>>,
    <<<<"c","o">>, <<"j","p">>>>, <<<<"c","o">>, <<"n","z">>>>,
    <<<<"c","o","m">>, <<"b","r">>>>, <<<<"c","o">>, <<"z","a">>>>,
    <<<<"c","o","m">>, <<"m","x">>>>, <<<<"c","o">>, <<"i","n">>>>,
    <<<<"c","o","m">>, <<"s","g">>>>, <<<<"c","o">>, <<"k","r">>>>,
    <<<<"c","o","m">>, <<"t","w">>>>, <<<<"c","o">>, <<"t","h">>>>,
    <<<<"c","o","m">>, <<"a","r">>>>, <<<<"c","o","m">>, <<"c","o">>>>,
    <<<<"c","o","m">>, <<"p","e">>>>, <<<<"c","o","m">>, <<"v","e">>>>,
    <<<<"c","o","m">>, <<"e","c">>>>, <<<<"c","o","m">>, <<"u","y">>>>,
    <<<<"c","o","m">>, <<"p","y">>>>, <<<<"c","o","m">>, <<"b","o">>>>,
    <<<<"c","o","m">>, <<"c","l">>>>, <<<<"c","o">>, <<"i","l">>>>,
    <<<<"c","o">>, <<"k","e">>>>, <<<<"c","o">>, <<"t","z">>>>, <<<<"c","o">>, <<"b","w">>>>,
    <<<<"c","o">>, <<"z","m">>>>, <<<<"c","o">>, <<"z","w">>>>, <<<<"a","c">>, <<"u","k">>>>,
    <<<<"o","r","g">>, <<"u","k">>>>, <<<<"n","e","t">>, <<"u","k">>>>,
    <<<<"g","o","v">>, <<"u","k">>>>, <<<<"s","c","h">>, <<"u","k">>>>,
    <<<<"p","o","l","i","c","e">>, <<"u","k">>>>, <<<<"m","o","d">>, <<"u","k">>>>,
    <<<<"n","h","s">>, <<"u","k">>>> }

fallback_suspicious_tlds == {
    <<"t","k">>, <<"m","l">>, <<"g","a">>, <<"c","f">>, <<"g","q">>, <<"x","y","z">>,
    <<"i","n","f","o">>, <<"t","o","p">>, <<"c","l","i","c","k">>, <<"l","o","a","n">>,
    <<"w","i","n">>, <<"w","o","r","k">> }

auth_path_words == {
    <<"l","o","g","i","n">>, <<"s","i","g","n","i","n">>, <<"a","u","t","h">>,
    <<"v","e","r","i","f","y">>, <<"s","e","c","u","r","e">>, <<"a","c","c","o","u","n","t">>,
    <<"p","o","r","t","a","l">>, <<"b","i","l","l","i","n","g">>,
    <<"p","a","y","m","e","n","t">>, <<"w","a","l","l","e","t">>,
    <<"c","h","e","c","k","o","u","t">> }

auth_query_words == {
    <<"l","o","g","i","n">>, <<"s","i","g","n","i","n">>, <<"a","u","t","h">>,
    <<"v","e","r","i","f","y">>, <<"a","c","c","o","u","n","t">> }

google_com    == <<<<"g","o","o","g","l","e">>, <<"c","o","m">>>>
microsoft_com == <<<<"m","i","c","r","o","s","o","f","t">>, <<"c","o","m">>>>
amazon_com    == <<<<"a","m","a","z","o","n">>, <<"c","o","m">>>>
apple_com     == <<<<"a","p","p","l","e">>, <<"c","o","m">>>>

----------------------------------------------------------------------------
(* ReputationService: find_similar_brands and its helpers *)

\* _get_brand_metadata(brand_domain)['official_domains']
official_domains(brand_domain) ==
    {brand_domain} \cup
    (IF brand_domain = microsoft_com
     THEN {<<<<"s","u","p","p","o","r","t">>, <<"m","i","c","r","o","s","o","f","t">>, <<"c","o","m">>>>, <<<<"l","o","g","i","n">>, <<"m","i","c","r","o","s","o","f","t">>, <<"c","o","m">>>>,
           <<<<"a","c","c","o","u","n","t">>, <<"m","i","c","r","o","s","o","f","t">>, <<"c","o","m">>>>, <<<<"a","z","u","r","e">>, <<"m","i","c","r","o","s","o","f","t">>, <<"c","o","m">>>>}
     ELSE IF brand_domain = google_com
     THEN {<<<<"a","c","c","o","u","n","t","s">>, <<"g","o","o","g","l","e">>, <<"c","o","m">>>>, <<<<"m","a","i","l">>, <<"g","o","o","g","l","e">>, <<"c","o","m">>>>,
           <<<<"d","r","i","v","e">>, <<"g","o","o","g","l","e">>, <<"c","o","m">>>>, <<<<"d","o","c","s">>, <<"g","o","o","g","l","e">>, <<"c","o","m">>>>}
     ELSE IF brand_domain = amazon_com
     THEN {<<<<"a","w","s">>, <<"a","m","a","z","o","n">>, <<"c","o","m">>>>, <<<<"s","m","i","l","e">>, <<"a","m","a","z","o","n">>, <<"c","o","m">>>>,
           <<<<"m","u","s","i","c">>, <<"a","m","a","z","o","n">>, <<"c","o","m">>>>, <<<<"p","r","i","m","e">>, <<"a","m","a","z","o","n">>, <<"c","o","m">>>>}
     ELSE IF brand_domain = apple_com
     THEN {<<<<"s","u","p","p","o","r","t">>, <<"a","p","p","l","e">>, <<"c","o","m">>>>, <<<<"i","c","l","o","u","d">>, <<"c","o","m">>>>,
           <<<<"a","p","p","l","e","i","d">>, <<"a","p","p","l","e">>, <<"c","o","m">>>>, <<<<"d","e","v","e","l","o","p","e","r">>, <<"a","p","p","l","e">>, <<"c","o","m">>>>}
     ELSE {})

\* hostname.startswith('www.') / re.sub(r'^www\.', '', netloc, IGNORECASE)
StripWww(labels) == IF Len(labels) >= 2 /\ Lower(labels[1]) = www THEN Tail(labels) ELSE labels

_extract_etld1_robust(domain) ==
    IF domain.host = << >> THEN << >>
    ELSE LET parts == StripWww(LowerAll(domain.host))
         IN  IF Len(parts) < 2 THEN parts
             ELSE IF Len(parts) >= 4 /\ LastN(parts, 3) \in comprehensive_multi_tlds
             THEN LastN(parts, 4)
             ELSE IF Len(parts) >= 3 /\ LastN(parts, 2) \in comprehensive_multi_tlds
             THEN LastN(parts, 3)
             ELSE LastN(parts, 2)

\* pre_map, applied before lower-casing
PreMap(c) == IF c = "I" THEN "l" ELSE c

\* post_map, applied after lower-casing (its ASCII entries)
PostMap(c) == CASE c = "0" -> "o" [] c = "1" -> "l" [] c = "3" -> "e" [] c = "5" -> "s"
                [] c = "6" -> "g" [] c = "8" -> "b" [] c = "@" -> "a" [] c = "$" -> "s"
                [] c = "!" -> "i" [] OTHER -> c

KeptChar(c) == c \in Letters \cup Digits09 \cup {"-"}

\* NFKD and the removal of combining marks leave ASCII text unchanged
_normalize_label_robust(label) ==
    SelectSeq([i \in 1..Len(label) |-> PostMap(LowerChar(PreMap(label[i])))], KeptChar)

RECURSIVE LetterRuns(_, _, _)
\* set(re.findall(r'[a-z]+', s)) from position i on, cur being the run in progress
LetterRuns(s, i, cur) ==
    IF i > Len(s) THEN (IF cur = << >> THEN {} ELSE {cur})
    ELSE IF s[i] \in Letters THEN LetterRuns(s, i + 1, Append(cur, s[i]))
    ELSE (IF cur = << >> THEN {} ELSE {cur}) \cup LetterRuns(s, i + 1, << >>)

NotHyphen(c) == c # "-"
IsAlpha(c) == c \in Letters

_is_suspicious_tld(tld) ==
    \/ Lower(tld) \in suspicious_tlds
    \/ Lower(tld) \in fallback_suspicious_tlds

\* tld.split('.')[-1] for a tld given as its labels
LastLabel(tld) == IF tld = << >> THEN << >> ELSE tld[Len(tld)]

_is_dictionary_word_brand(brand) == Lower(brand) \in dictionary_word_brands

\* _extract_path_flags(domain)['has_auth_path'], the one flag that is read
has_auth_path(domain) ==
    \/ \E i \in 1..Len(domain.path) : Lower(domain.path[i]) \in auth_path_words
    \/ \E i \in 1..Len(domain.query) :
          \E w \in auth_query_words : EndsWith(Lower(domain.query[i]), w)

_has_impersonation_signals(tokens, auth_path) ==
    (tokens \cap impersonation_keywords # {}) \/ auth_path

_contains_brand_with_keywords_mut(tokens, brand) == FALSE

_contains_brand_with_keywords(tokens, brand) ==
    brand \in tokens /\ (tokens \cap impersonation_keywords # {})

_confusable_exact_mut(raw_label, brand_name, norm_label, norm_brand) ==
    norm_label = norm_brand

_confusable_exact(raw_label, brand_name, norm_label, norm_brand) ==
    (Lower(raw_label) # Lower(brand_name)) /\ (norm_label = norm_brand)

_get_distance_threshold(brand, suspicious_tld) ==
    (IF Len(brand) <= 4 THEN 1 ELSE IF Len(brand) <= 8 THEN 2 ELSE 3)
    + (IF suspicious_tld THEN 1 ELSE 0)

RECURSIVE LevRow(_, _, _, _)
\* the inner loop of _levenshtein_distance for character c1 of s1: current_row
\* holds j entries when the loop reaches the j-th character of s2
LevRow(c1, s2, previous_row, current_row) ==
    LET j == Len(current_row)
    IN  IF j > Len(s2) THEN current_row
        ELSE LET insertions    == previous_row[j + 1] + 1
                 deletions     == current_row[j] + 1
                 substitutions == previous_row[j] + (IF c1 # s2[j] THEN 1 ELSE 0)
             IN  LevRow(c1, s2, previous_row,
                        Append(current_row, Min(insertions, Min(deletions, substitutions))))

RECURSIVE LevRows(_, _, _)
\* the outer loop: previous_row starts with the number of characters of s1
\* already consumed (range(..) starts with 0, each current_row with i + 1)
LevRows(s1, s2, previous_row) ==
    LET i == previous_row[1]
    IN  IF i >= Len(s1) THEN previous_row
        ELSE LevRows(s1, s2, LevRow(s1[i + 1], s2, previous_row, <<i + 1>>))

_levenshtein_distance(a, b) ==
    LET s1 == IF Len(a) < Len(b) THEN b ELSE a
        s2 == IF Len(a) < Len(b) THEN a ELSE b
    IN  IF Len(s2) = 0 THEN Len(s1)
        ELSE LevRows(s1, s2, [j \in 1..(Len(s2) + 1) |-> j - 1])[Len(s2) + 1]

_classify_similarity_type(domain_slim, brand) ==
    IF Len(domain_slim) = Len(brand)
    THEN LET diff == {i \in 1..Len(brand) : domain_slim[i] # brand[i]}
             conf(b) == CASE b = "o" -> "0" [] b = "l" -> "1" [] b = "e" -> "3"
                          [] b = "s" -> "5" [] OTHER -> "none"
         IN  IF Cardinality(diff) = 1
             THEN LET i == CHOOSE i \in diff : TRUE
                  IN  IF conf(brand[i]) = domain_slim[i] THEN "confusable_substitution"
                      ELSE "single_character_substitution"
             ELSE IF Cardinality(diff) = 2 THEN "double_character_substitution"
             ELSE "multiple_substitutions"
    ELSE IF Len(domain_slim) > Len(brand) THEN "character_insertion"
    ELSE "character_deletion"

\* _create_match_result; confidence is in thousandths (round(confidence, 3))
_create_match_result(brand_domain, match_type, distance, confidence, etld1, tld, metadata) ==
    [brand_domain |-> brand_domain, brand |-> brand_domain[1], type |-> match_type,
     distance |-> distance, confidence |-> confidence, etld1 |-> etld1, tld |-> tld,
     metadata |-> metadata]

\* what find_similar_brands computes from its argument before the loop (lines 228-258)
Parsed(domain) ==
    LET etld1     == _extract_etld1_robust(domain)
        label_raw == StripWww(domain.host)[1]
        norm      == _normalize_label_robust(label_raw)
        tld       == Tail(etld1)
    IN  [etld1 |-> etld1, label_raw |-> label_raw, tld |-> tld, norm |-> norm,
         slim |-> SelectSeq(norm, NotHyphen),
         tokens |-> LetterRuns(norm, 1, << >>),
         suspicious_tld |-> _is_suspicious_tld(LastLabel(tld)),
         auth_path |-> has_auth_path(domain)]

SkipOfficial_mut(etld1, brand_domain) == FALSE

\* the two "official domain" tests that skip a brand (lines 266-272)
SkipOfficial(etld1, brand_domain) ==
    \/ etld1 = brand_domain
    \/ etld1 \in official_domains(brand_domain)

NeedsExtraSignal_mut(brand_norm, c) == FALSE

\* the dictionary-word rule (lines 293 and 353-355): the match is dropped
NeedsExtraSignal(brand_norm, c) ==
    /\ _is_dictionary_word_brand(brand_norm)
    /\ ~(c.suspicious_tld \/ _has_impersonation_signals(c.tokens, c.auth_path))

EditDistanceHit_mut(brand_domain, brand_norm, c) ==
    LET distance  == _levenshtein_distance(c.slim, brand_norm)
        threshold == _get_distance_threshold(brand_norm, c.suspicious_tld)
    IN  IF distance <= threshold /\ ~NeedsExtraSignal(brand_norm, c)
        THEN {_create_match_result(brand_domain, "lookalike", distance,
                  750 + 50 * (threshold - distance), c.etld1, c.tld,
                  [similarity_type |-> _classify_similarity_type(c.slim, brand_norm),
                   path_flags |-> c.auth_path])}
        ELSE {}

\* BRANCH 3 of the loop body (lines 317-366)
EditDistanceHit(brand_domain, brand_norm, c) ==
    LET letters_in_slim == SelectSeq(c.slim, IsAlpha)
        char_overlap    == Cardinality(CharSet(c.slim) \cap CharSet(brand_norm))
        min_overlap     == Max(3, (4 * Len(brand_norm)) \div 10)
        ends_match      == \/ c.slim[1] = brand_norm[1]
                           \/ c.slim[Len(c.slim)] = brand_norm[Len(brand_norm)]
        distance        == _levenshtein_distance(c.slim, brand_norm)
        threshold       == _get_distance_threshold(brand_norm, c.suspicious_tld)
        base_confidence == 750 + 50 * (threshold - distance)
                           + (IF c.auth_path THEN 100 ELSE 0)
    IN  IF Len(letters_in_slim) < 3 THEN {}
        ELSE IF char_overlap < min_overlap THEN {}
        ELSE IF ~ends_match THEN {}
        ELSE IF Abs(Len(c.slim) - Len(brand_norm)) > threshold + 2 THEN {}
        ELSE IF 0 < distance /\ distance <= threshold
        THEN IF NeedsExtraSignal(brand_norm, c) THEN {}
             ELSE {_create_match_result(brand_domain, "lookalike", distance, base_confidence,
                       c.etld1, c.tld,
                       [similarity_type |-> _classify_similarity_type(c.slim, brand_norm),
                        path_flags |-> c.auth_path, char_overlap |-> char_overlap,
                        letters_count |-> Len(letters_in_slim)])}
        ELSE {}

\* one iteration of the loop over brand_domains (lines 262-366): the hits it appends
BrandHits(brand_domain, c) ==
    LET brand_name == brand_domain[1]
        brand_norm == _normalize_label_robust(brand_name)
        bonus(n)   == IF c.suspicious_tld THEN n ELSE 0
    IN  IF SkipOfficial(c.etld1, brand_domain) THEN {}
        ELSE IF _confusable_exact(c.label_raw, brand_name, c.norm, brand_norm)
        THEN {_create_match_result(brand_domain, "lookalike", 1, 850 + bonus(50),
                  c.etld1, c.tld,
                  [similarity_type |-> "confusable_substitution", path_flags |-> c.auth_path])}
        ELSE IF c.norm = brand_norm /\ c.etld1 # brand_domain
        THEN IF NeedsExtraSignal(brand_norm, c) THEN {}
             ELSE {_create_match_result(brand_domain, "exact_match_different_tld", 0,
                       950 + bonus(30), c.etld1, c.tld,
                       [normalized_domain |-> c.norm, normalized_brand |-> brand_norm,
                        path_flags |-> c.auth_path])}
        ELSE IF _contains_brand_with_keywords(c.tokens, brand_norm)
        THEN {_create_match_result(brand_domain, "brand_with_keywords", 0, 900 + bonus(50),
                  c.etld1, c.tld,
                  [keywords_found |-> c.tokens \cap impersonation_keywords,
                   path_flags |-> c.auth_path])}
        ELSE IF Len(c.slim) >= 3 /\ Len(brand_norm) >= 3
        THEN EditDistanceHit(brand_domain, brand_norm, c)
        ELSE {}

\* all hits collected by the loop
AllHits(domain) ==
    IF domain.host = << >> THEN {}
    ELSE IF _extract_etld1_robust(domain) = << >> THEN {}
    ELSE LET c == Parsed(domain)
         IN  UNION {BrandHits(brand_domain, c) : brand_domain \in brand_domains}

\* the sort key (distance, -confidence)
KeyLE(a, b) == \/ a.distance < b.distance
               \/ (a.distance = b.distance /\ a.confidence >= b.confidence)

RECURSIVE SortedOrders(_)
\* the orders hits.sort may leave: the sort is stable and the hits arrive in
\* the iteration order of a set, so hits with equal keys come in any order
SortedOrders(hits) ==
    IF hits = {} THEN {<< >>}
    ELSE UNION {{<<h>> \o t : t \in SortedOrders(hits \ {h})} :
                   h \in {m \in hits : \A g \in hits : KeyLE(m, g)}}

find_similar_brands_mut(domain) ==
    {SubSeq(s, 1, Min(4, Len(s))) : s \in SortedOrders(AllHits(domain))}

\* the lists find_similar_brands(domain) may return (lines 369-371)
find_similar_brands(domain) ==
    {SubSeq(s, 1, Min(3, Len(s))) : s \in SortedOrders(AllHits(domain))}

PathEscalation_mut(path_flags, match_type) == FALSE

\* the path-based escalation test (line 432)
PathEscalation(path_flags, match_type) == path_flags /\ match_type = "lookalike"

\* get_brand_similarity_score, given the list find_similar_brands returned
get_brand_similarity_score(similar_brands) ==
    IF similar_brands = << >> THEN [score |-> 0, reasons |-> << >>, type |-> "none"]
    ELSE LET best_match == similar_brands[1]
             match_type == best_match.type
             susp       == _is_suspicious_tld(LastLabel(best_match.tld))
             similarity_type == IF "similarity_type" \in DOMAIN best_match.metadata
                                THEN best_match.metadata.similarity_type ELSE "unknown"
             base ==
               CASE match_type = "exact_match_different_tld" ->
                      IF susp THEN [s |-> 4, r |-> <<"brand_impersonation_high_risk", "suspicious_domain">>]
                      ELSE [s |-> 2, r |-> <<"brand_impersonation", "different_tld">>]
                 [] match_type = "brand_with_keywords" ->
                      IF susp THEN [s |-> 4, r |-> <<"brand_impersonation_high_risk",
                                                     "impersonation_keywords", "suspicious_domain">>]
                      ELSE [s |-> 2, r |-> <<"brand_impersonation", "impersonation_keywords">>]
                 [] match_type = "lookalike" ->
                      LET r0 == IF susp THEN <<"brand_similarity", "suspicious_domain", "lookalike_domain">>
                                ELSE <<"brand_similarity", "lookalike_domain">>
                      IN  [s |-> IF susp THEN 3 ELSE 2,
                           r |-> IF similarity_type = "confusable_substitution"
                                 THEN Append(r0, "homoglyph_substitution") ELSE r0]
                 [] OTHER -> [s |-> 1, r |-> <<"brand_similarity">>]
             escalate == PathEscalation(best_match.metadata.path_flags, match_type)
             base_score == base.s + (IF escalate THEN 2 ELSE 0)
         IN  [score |-> Min(base_score, 4),
              reasons |-> IF escalate THEN Append(base.r, "auth_path") ELSE base.r,
              type |-> match_type]

----------------------------------------------------------------------------
(* The candidates find_similar_brands is called with *)

\* first labels as written (case preserved): brand names, confusable and
\* mistyped spellings, brand-plus-word compounds, unrelated labels
CandidateLabels == {
    <<"c","h","a","s","e">>, <<"g","o","o","g","l","e">>,
    <<"m","i","c","r","o","s","o","f","t">>, <<"p","a","y","p","a","l">>,
    <<"t","a","r","g","e","t">>, <<"a","p","p","l","e">>, <<"a","m","a","z","o","n">>,
    <<"i","r","s">>, <<"C","h","a","s","e">>, <<"I","R","S">>, <<"g","0","0","g","l","e">>,
    <<"a","m","a","z","0","n">>, <<"a","p","p","l","3">>, <<"P","a","y","P","a","I">>,
    <<"p","a","y","p","a","1">>, <<"a","p","p","l","e","d","a","i","l","y">>,
    <<"t","a","r","g","e","t","n","e","w","s">>,
    <<"c","h","a","s","e","r","e","w","a","r","d","s">>, <<"a","p","p","e","l">>,
    <<"c","h","a","s","e","e">>, <<"g","o","g","l","e">>, <<"p","a","y","p","a","l","l">>,
    <<"p","a","y","p","a","l","-","l","o","g","i","n">>,
    <<"a","p","p","l","e","-","s","u","p","p","o","r","t">>,
    <<"c","h","a","s","e","-","s","e","c","u","r","e">>, <<"p","a","y","-","p","a","l">>,
    <<"l","o","g","i","n">>, <<"e","x","a","m","p","l","e">>, <<"i","c","l","o","u","d">>,
    <<"1","2","3","4","5","6">>,
    <<"m","i","c","r","o","s","o","f","t","-","s","u","p","p","o","r","t">>,
    <<"m","i","c","r","o","s","o","f","t","-","-","s","u","p","p","o","r","t">> }

CandidateTlds == {
    <<<<"c","o","m">>>>, <<<<"t","k">>>>, <<<<"m","l">>>>, <<<<"c","f">>>>, <<<<"g","q">>>>,
    <<<<"n","e","t">>>>, <<<<"c","o">>, <<"u","k">>>> }

\* labels in front of the first label of the registrable domain
CandidateSubdomains == {
    << >>, <<<<"w","w","w">>>>, <<<<"W","W","W">>>>, <<<<"g","0","0","g","l","e">>>>,
    <<<<"a","p","p","l","e","-","l","o","g","i","n">>>> }

\* path segments and query keys
CandidatePaths == {<< >>, <<<<"L","o","g","i","n">>>>, <<<<"a","b","o","u","t">>>>}
CandidateQueries == {<< >>, <<<<"l","o","g","i","n">>>>}

\* "host/path?query" with or without a scheme: the argument, parsed as urlparse does
Candidate(host, path, query) == [host |-> host, path |-> path, query |-> query]

\* a label naming four brands next to a keyword
CrowdedLabel == <<"a","p","p","l","e","-","c","h","a","s","e","-","p","a","y","p","a","l","-","g","o","o","g","l","e","-","l","o","g","i","n">>

\* labels made of digits only
DigitLabels == {<<"1","2","3","4","5","6">>, <<"1","2","3","4","5">>, <<"6","0","0","6","1","3">>, <<"6","0","0","6","1">>}

\* labels one or more edits away from the brands microsoft, adobe, apple, zelle and google
EditedLabels == {<<"m","i","c","r","o","s","f","t">>, <<"a","d","o","l","e">>, <<"a","z","o","l","e">>}

Candidates ==
    {Candidate(<<label>> \o tld, << >>, << >>) :
        label \in {CrowdedLabel} \cup DigitLabels,
        tld \in {<<<<"c","o","m">>>>, <<<<"t","k">>>>, <<<<"m","l">>>>}} \cup
    {Candidate(<<label>> \o tld, path, << >>) :
        label \in EditedLabels, tld \in {<<<<"c","o","m">>>>, <<<<"t","k">>>>},
        path \in CandidatePaths} \cup
    {Candidate(sub \o <<label>> \o tld, pq.path, pq.query) :
        sub \in CandidateSubdomains, label \in CandidateLabels, tld \in CandidateTlds,
        pq \in {Candidate(<< >>, p, q) : p \in CandidatePaths, q \in {<< >>}}
               \cup {Candidate(<< >>, << >>, q) : q \in CandidateQueries}}

BrandInit ==
    /\ FetchIdle
    /\ AnalyzeIdle
    /\ StoreIdle
    /\ NormalizeIdle
    /\ b_pc = "start"
    /\ b_domain \in Candidates
    /\ b_similar = << >>
    /\ b_score = << >>

\* a call find_similar_brands(domain)
FindSimilarBrands ==
    /\ b_pc = "start"
    /\ b_similar' \in find_similar_brands(b_domain)
    /\ b_pc' = "found"
    /\ UNCHANGED <<b_domain, b_score>>
    /\ UNCHANGED NotBrand

\* a call get_brand_similarity_score(domain): it calls find_similar_brands itself
GetBrandSimilarityScore ==
    /\ b_pc \in {"start", "found"}
    /\ \E similar_brands \in find_similar_brands(b_domain) :
          /\ b_similar' = similar_brands
          /\ b_score' = get_brand_similarity_score(similar_brands)
    /\ b_pc' = "scored"
    /\ UNCHANGED b_domain
    /\ UNCHANGED NotBrand

BrandNext == FindSimilarBrands \/ GetBrandSimilarityScore

SpecBrand == BrandInit /\ [][BrandNext]_vars

----------------------------------------------------------------------------
(* ReputationService: domain reputation and verdicts *)

\* the domains of reputable_domains.json, by score (create_data_structure.py)
HighlyReputableDomains == {
    <<<<"a","m","a","z","o","n">>, <<"c","o","m">>>>,
    <<<<"a","m","e","r","i","c","a","n","e","x","p","r","e","s","s">>, <<"c","o","m">>>>,
    <<<<"a","p">>, <<"o","r","g">>>>, <<<<"a","p","p","l","e">>, <<"c","o","m">>>>,
    <<<<"b","a","n","k","o","f","a","m","e","r","i","c","a">>, <<"c","o","m">>>>,
    <<<<"b","b","c">>, <<"c","o","m">>>>, <<<<"b","i","n","g">>, <<"c","o","m">>>>,
    <<<<"c","d","c">>, <<"g","o","v">>>>, <<<<"c","h","a","s","e">>, <<"c","o","m">>>>,
    <<<<"c","i","t","i","b","a","n","k">>, <<"c","o","m">>>>,
    <<<<"d","i","s","c","o","v","e","r">>, <<"c","o","m">>>>,
    <<<<"d","u","c","k","d","u","c","k","g","o">>, <<"c","o","m">>>>,
    <<<<"f","d","a">>, <<"g","o","v">>>>, <<<<"f","e","d","e","x">>, <<"c","o","m">>>>,
    <<<<"g","i","t","h","u","b">>, <<"c","o","m">>>>,
    <<<<"g","o","o","g","l","e">>, <<"c","o","m">>>>,
    <<<<"h","a","r","v","a","r","d">>, <<"e","d","u">>>>, <<<<"i","r","s">>, <<"g","o","v">>>>,
    <<<<"m","a","s","t","e","r","c","a","r","d">>, <<"c","o","m">>>>,
    <<<<"m","a","y","o","c","l","i","n","i","c">>, <<"o","r","g">>>>,
    <<<<"m","e","d","i","c","a","r","e">>, <<"g","o","v">>>>,
    <<<<"m","e","d","l","i","n","e","p","l","u","s">>, <<"g","o","v">>>>,
    <<<<"m","i","c","r","o","s","o","f","t">>, <<"c","o","m">>>>,
    <<<<"m","i","t">>, <<"e","d","u">>>>, <<<<"n","p","r">>, <<"o","r","g">>>>,
    <<<<"p","b","s">>, <<"o","r","g">>>>, <<<<"r","e","u","t","e","r","s">>, <<"c","o","m">>>>,
    <<<<"s","s","a">>, <<"g","o","v">>>>,
    <<<<"s","t","a","c","k","o","v","e","r","f","l","o","w">>, <<"c","o","m">>>>,
    <<<<"s","t","a","n","f","o","r","d">>, <<"e","d","u">>>>,
    <<<<"u","p","s">>, <<"c","o","m">>>>, <<<<"u","s","a">>, <<"g","o","v">>>>,
    <<<<"u","s","b","a","n","k">>, <<"c","o","m">>>>, <<<<"u","s","p","s">>, <<"c","o","m">>>>,
    <<<<"v","i","s","a">>, <<"c","o","m">>>>,
    <<<<"w","e","l","l","s","f","a","r","g","o">>, <<"c","o","m">>>>,
    <<<<"w","i","k","i","p","e","d","i","a">>, <<"o","r","g">>>> }

ReputableDomains == {
    <<<<"e","b","a","y">>, <<"c","o","m">>>>,
    <<<<"f","a","c","e","b","o","o","k">>, <<"c","o","m">>>>,
    <<<<"h","e","a","l","t","h","l","i","n","e">>, <<"c","o","m">>>>,
    <<<<"i","n","s","t","a","g","r","a","m">>, <<"c","o","m">>>>,
    <<<<"l","i","n","k","e","d","i","n">>, <<"c","o","m">>>>,
    <<<<"t","a","r","g","e","t">>, <<"c","o","m">>>>,
    <<<<"t","w","i","t","t","e","r">>, <<"c","o","m">>>>,
    <<<<"w","a","l","m","a","r","t">>, <<"c","o","m">>>>,
    <<<<"w","e","b","m","d">>, <<"c","o","m">>>> }

\* domain_scores as _build_lookup_caches builds it
domain_scores ==
    [d \in HighlyReputableDomains \cup ReputableDomains |->
        IF d \in HighlyReputableDomains THEN 0 - 2 ELSE 0 - 1]

\* get_domain_score(domain), the domain given as its labels ('' is << >>)
get_domain_score(domain) ==
    IF domain = << >> THEN 0
    ELSE LET d     == StripWww(LowerAll(domain))
             parts == d
         IN  IF d \in DOMAIN domain_scores THEN domain_scores[d]
             ELSE IF Len(parts) > 2 /\ LastN(parts, 2) \in DOMAIN domain_scores
             THEN domain_scores[LastN(parts, 2)]
             ELSE IF parts[Len(parts)] \in suspicious_tlds THEN 2
             ELSE 0

\* the part of heuristic_weights.json that score_to_verdict reads
heuristic_weights_json == [thresholds |-> [danger |-> 4, warning |-> 2, ok |-> 1]]

\* dict.get(key, default) on a dict modelled as a function
Get(dict, key, default) == IF key \in DOMAIN dict THEN dict[key] ELSE default

get_verdict_thresholds(heuristic_weights) ==
    Get(heuristic_weights, "thresholds", [danger |-> 4, warning |-> 2, ok |-> 1])

score_to_verdict_mut(heuristic_weights, score) ==
    LET thresholds == get_verdict_thresholds(heuristic_weights)
    IN  IF score >= Get(thresholds, "warning", 2) THEN "warning"
        ELSE IF score >= Get(thresholds, "danger", 4) THEN "danger"
        ELSE "ok"

\* score_to_verdict(score) on an instance whose heuristic_weights attribute is given
score_to_verdict(heuristic_weights, score) ==
    LET thresholds == get_verdict_thresholds(heuristic_weights)
    IN  IF score >= Get(thresholds, "danger", 4) THEN "danger"
        ELSE IF score >= Get(thresholds, "warning", 2) THEN "warning"
        ELSE "ok"

get_heuristic_weight_mut(category, key) == [raises |-> FALSE, weight |-> 1]

\* self.reputation.get_heuristic_weight(category, key): ReputationService defines
\* get_heuristic_weights only, so the attribute lookup raises AttributeError
get_heuristic_weight(category, key) == [raises |-> TRUE, weight |-> 0]

\* the keys of the dict check_suspicious_keywords returns for a non-empty text
KeywordAnalysisKeys == {"found_keywords", "patterns", "risk_level", "total_weight"}

----------------------------------------------------------------------------
(* URLNormalizer.normalize_url, as far as Tier0Analyzer reads its result *)

RECURSIVE Join(_, _)
\* sep.join(parts) with every part prefixed by sep
Join(parts, sep) ==
    IF parts = << >> THEN << >> ELSE sep \o Head(parts) \o Join(Tail(parts), sep)

\* '.'.join(labels)
HostText(labels) == IF labels = << >> THEN << >> ELSE Tail(Join(labels, <<".">>))

\* re.search of a literal, IGNORECASE
Contains(text, literal) ==
    \E i \in 1..(Len(text) - Len(literal) + 1) :
        Lower(SubSeq(text, i, i + Len(literal) - 1)) = literal

\* a URL text: scheme ('' when it has no "scheme://"), host labels, port (-1: none)
\* and the path segments, without a trailing slash
UrlText(scheme, host, port, path) == [scheme |-> scheme, host |-> host, port |-> port, path |-> path]

\* parsed.port raises ValueError for a port out of range
PortRaises(url) == url.scheme # << >> /\ url.port > 65535

\* the text of the URL as given
OriginalUrl(url) ==
    (IF url.scheme = << >> THEN << >> ELSE url.scheme \o <<":", "/", "/">>)
    \o HostText(url.host)
    \o (IF url.port < 0 THEN << >> ELSE <<":">> \o NumStr(url.port, 10))
    \o Join(url.path, <<"/">>)

\* normalize_url(url): the keys normalized_url, domain, tld and path; path holds
\* the segments that follow a slash
normalize_url(url) ==
    IF PortRaises(url)
    THEN [normalized_url |-> OriginalUrl(url), domain |-> << >>, tld |-> << >>, path |-> << >>]
    ELSE LET hostname == IF url.scheme = << >> THEN << >> ELSE LowerAll(url.host)
         IN  [normalized_url |-> OriginalUrl([url EXCEPT !.scheme = Lower(url.scheme),
                                                         !.host = LowerAll(url.host)]),
              domain |-> hostname,
              tld |-> IF Len(hostname) >= 2 THEN hostname[Len(hostname)] ELSE << >>,
              path |-> url.path]

----------------------------------------------------------------------------
(* URLNormalizer.normalize_url on the text of a URL                         *)
(* urlparse, urlunparse, parse_qs and urlencode are computed as CPython     *)
(* 3.11 computes them on texts without '%', '[', tabs and line breaks.      *)

\* URLNormalizer.TRACKING_PARAMS
TRACKING_PARAMS == {
    <<"u","t","m","_","s","o","u","r","c","e">>, <<"u","t","m","_","m","e","d","i","u","m">>,
    <<"u","t","m","_","c","a","m","p","a","i","g","n">>, <<"u","t","m","_","t","e","r","m">>,
    <<"u","t","m","_","c","o","n","t","e","n","t">>, <<"u","t","m","_","i","d">>,
    <<"u","t","m","_","c","a","m","p","a","i","g","n","_","i","d">>,
    <<"u","t","m","_","c","o","n","t","e","n","t","_","i","d">>, <<"f","b","c","l","i","d">>,
    <<"f","b","_","a","c","t","i","o","n","_","i","d","s">>,
    <<"f","b","_","a","c","t","i","o","n","_","t","y","p","e","s">>, <<"f","b","_","r","e","f">>,
    <<"f","b","_","s","o","u","r","c","e">>, <<"g","c","l","i","d">>, <<"g","c","l","s","r","c">>,
    <<"g","c","l","_","a","u">>, <<"g","a","c","_","u","a">>, <<"g","a","c","_","g","a","c">>,
    <<"m","s","c","l","k","i","d">>, <<"m","c","_","c","i","d">>, <<"m","c","_","e","i","d">>,
    <<"z","a","n","p","i","d">>, <<"_","h","s","e","n","c">>, <<"_","h","s","m","i">>,
    <<"h","s","C","t","a","T","r","a","c","k","i","n","g">>, <<"h","s","a","_","a","c","c">>,
    <<"h","s","a","_","c","a","m">>, <<"h","s","a","_","g","r","p">>, <<"h","s","a","_","a","d">>,
    <<"h","s","a","_","s","r","c">>, <<"h","s","a","_","t","g","t">>, <<"h","s","a","_","k","w">>,
    <<"h","s","a","_","m","t">>, <<"h","s","a","_","n","e","t">>, <<"h","s","a","_","v","e","r">>,
    <<"_","_","s">>, <<"v","e","r","o","_","i","d">>, <<"v","e","r","o","_","c","o","n","v">>,
    <<"m","k","t","_","t","o","k">>, <<"t","r","k","_","c","o","n","t","a","c","t">>,
    <<"t","r","k","_","m","s","g">>, <<"t","r","k","_","m","o","d","u","l","e">>,
    <<"t","r","k","_","s","i","d">>, <<"_","g","a">>, <<"_","g","i","d">>, <<"_","g","a","c","_">>,
    <<"_","g","t","m","_">>, <<"_","d","c","_","g","t","m","_">>, <<"v">>, <<"v","e","r">>,
    <<"v","e","r","s","i","o","n">>, <<"c","a","c","h","e">>, <<"c","b">>,
    <<"c","a","c","h","e","b","u","s","t","e","r">>, <<"t">>, <<"t","s">>,
    <<"t","i","m","e","s","t","a","m","p">>, <<"_","t">>, <<"_","t","s">>, <<"_","t","i","m","e">>,
    <<"r">>, <<"r","n","d">>, <<"r","a","n","d","o","m">>, <<"_","r">>, <<"_","r","n","d">>,
    <<"_","r","a","n","d","o","m">>, <<"n","o","n","c","e">>, <<"_","n","o","n","c","e">>,
    <<"s","i","g">>, <<"_","s","i","g">>, <<"_","s","i","g","n","a","t","u","r","e">> }

\* URLNormalizer.SESSION_PATTERNS: each pattern is '.*' followed by a literal and '$'
SESSION_PATTERNS == {
    <<"_","t","s">>, <<"_","t","i","m","e">>, <<"_","r","n","d">>, <<"_","n","o","n","c","e">>,
    <<"_","s","i","g">>, <<"_","c","a","c","h","e">>, <<"_","v">> }

\* the characters the texts are made of, in code point order
AsciiOrder == <<" ", "#", "&", "+", "-", ".", "/", "0", "1", "2", "3", "4", "5", "6", "7", "8", "9",
                ":", ";", "=", "?", "@">> \o UpperCase \o <<"_">> \o LowerCase \o <<"~">>

\* str < str
StrLess(a, b) ==
    LET differ == {i \in 1..Min(Len(a), Len(b)) : a[i] # b[i]}
        Ord(c) == CHOOSE i \in 1..Len(AsciiOrder) : AsciiOrder[i] = c
    IN  IF differ = {} THEN Len(a) < Len(b)
        ELSE LET i == CHOOSE k \in differ : \A j \in differ : k <= j
             IN  Ord(a[i]) < Ord(b[i])

\* str.find of any of the characters, from a position on; 0 when there is none
Find(text, chars, from) ==
    LET found == {i \in from..Len(text) : text[i] \in chars}
    IN  IF found = {} THEN 0 ELSE CHOOSE i \in found : \A j \in found : i <= j

\* str.rfind of a character; 0 when there is none
RFind(text, char) ==
    LET found == {i \in 1..Len(text) : text[i] = char}
    IN  IF found = {} THEN 0 ELSE CHOOSE i \in found : \A j \in found : i >= j

\* text[from:]
From(text, from) == SubSeq(text, from, Len(text))

\* str.strip()
Strip(text) ==
    LET kept == {i \in 1..Len(text) : text[i] # " "}
    IN  IF kept = {} THEN << >>
        ELSE SubSeq(text, CHOOSE i \in kept : \A j \in kept : i <= j,
                          CHOOSE i \in kept : \A j \in kept : i >= j)

RECURSIVE Split(_, _)
\* str.split(sep) for a one-character separator
Split(text, sep) ==
    LET i == Find(text, {sep}, 1)
    IN  IF i = 0 THEN <<text>> ELSE <<SubSeq(text, 1, i - 1)>> \o Split(From(text, i + 1), sep)

\* the schemes of urllib.parse.uses_netloc and uses_params that occur here
uses_netloc == {<< >>, <<"h","t","t","p">>, <<"h","t","t","p","s">>}

\* urllib.parse.urlparse(url): the text is split from left to right, each
\* step working on what the step before left over
urlparse(text) ==
    LET Parts(scheme, netloc, rest4, query, fragment) ==
            LET slash == RFind(rest4, "/")
                semi  == IF scheme \in uses_netloc THEN Find(rest4, {";"}, Max(slash, 1)) ELSE 0
            IN  [scheme   |-> scheme,
                 netloc   |-> netloc,
                 path     |-> IF semi = 0 THEN rest4 ELSE SubSeq(rest4, 1, semi - 1),
                 params   |-> IF semi = 0 THEN << >> ELSE From(rest4, semi + 1),
                 query    |-> query,
                 fragment |-> fragment]
        AfterFragment(scheme, netloc, rest3, fragment) ==
            LET mark == Find(rest3, {"?"}, 1)
            IN  Parts(scheme, netloc,
                      IF mark = 0 THEN rest3 ELSE SubSeq(rest3, 1, mark - 1),
                      IF mark = 0 THEN << >> ELSE From(rest3, mark + 1),
                      fragment)
        AfterNetloc(scheme, netloc, rest2) ==
            LET hash == Find(rest2, {"#"}, 1)
            IN  AfterFragment(scheme, netloc,
                              IF hash = 0 THEN rest2 ELSE SubSeq(rest2, 1, hash - 1),
                              IF hash = 0 THEN << >> ELSE From(rest2, hash + 1))
        AfterScheme(scheme, rest1) ==
            LET slashes == Len(rest1) >= 2 /\ rest1[1] = "/" /\ rest1[2] = "/"
                delim   == IF slashes THEN Find(rest1, {"/", "?", "#"}, 3) ELSE 0
            IN  AfterNetloc(scheme,
                            IF ~slashes THEN << >>
                            ELSE SubSeq(rest1, 3, IF delim = 0 THEN Len(rest1) ELSE delim - 1),
                            IF ~slashes THEN rest1
                            ELSE IF delim = 0 THEN << >> ELSE From(rest1, delim))
        Stripped(url) ==
            LET colon   == Find(url, {":"}, 1)
                schemed == /\ colon > 1
                           /\ Lower(<<url[1]>>)[1] \in Letters
                           /\ \A i \in 1..(colon - 1) :
                                 Lower(<<url[i]>>)[1] \in Letters \cup Digits09 \cup {"+", "-", "."}
            IN  AfterScheme(IF schemed THEN Lower(SubSeq(url, 1, colon - 1)) ELSE << >>,
                            IF schemed THEN From(url, colon + 1) ELSE url)
        kept == {i \in 1..Len(text) : text[i] # " "}
    IN  Stripped(IF kept = {} THEN << >>
                 ELSE From(text, CHOOSE i \in kept : \A j \in kept : i <= j))

\* urllib.parse.urlunparse(parsed)
urlunparse(parsed) ==
    LET url1 == parsed.path \o (IF parsed.params = << >> THEN << >> ELSE <<";">> \o parsed.params)
        url2 == IF \/ parsed.netloc # << >>
                   \/ /\ parsed.scheme # << >>
                      /\ parsed.scheme \in uses_netloc
                      /\ ~(Len(url1) >= 2 /\ url1[1] = "/" /\ url1[2] = "/")
                THEN <<"/", "/">> \o parsed.netloc
                     \o (IF url1 # << >> /\ url1[1] # "/" THEN <<"/">> ELSE << >>) \o url1
                ELSE url1
    IN  (IF parsed.scheme = << >> THEN << >> ELSE parsed.scheme \o <<":">>)
        \o url2
        \o (IF parsed.query = << >> THEN << >> ELSE <<"?">> \o parsed.query)
        \o (IF parsed.fragment = << >> THEN << >> ELSE <<"#">> \o parsed.fragment)

\* parsed.hostname ('' for None) and parsed.port (-1 for None, -2 when it raises ValueError)
HostInfo(netloc) ==
    LET PortOf(port) ==
            LET Value[i \in 0..Len(port)] ==
                    IF i = 0 THEN 0
                    ELSE 10 * Value[i - 1] + (CHOOSE d \in 0..9 : Digit(d) = port[i])
            IN  IF port = << >> THEN 0 - 1
                ELSE IF \E i \in 1..Len(port) : port[i] \notin Digits09 THEN 0 - 2
                ELSE IF Value[Len(port)] > 65535 THEN 0 - 2
                ELSE Value[Len(port)]
        Info(hostinfo, colon) ==
            [hostname |-> Lower(IF colon = 0 THEN hostinfo ELSE SubSeq(hostinfo, 1, colon - 1)),
             port     |-> PortOf(IF colon = 0 THEN << >> ELSE From(hostinfo, colon + 1))]
        AfterAt(hostinfo) == Info(hostinfo, Find(hostinfo, {":"}, 1))
    IN  AfterAt(From(netloc, RFind(netloc, "@") + 1))

\* the escapes urllib.parse.quote_plus writes for the characters of the texts
Escapes == <<
    <<" ", <<"+">>>>, <<"#", <<"%","2","3">>>>, <<"&", <<"%","2","6">>>>, <<"+", <<"%","2","B">>>>,
    <<"/", <<"%","2","F">>>>, <<":", <<"%","3","A">>>>, <<";", <<"%","3","B">>>>,
    <<"=", <<"%","3","D">>>>, <<"?", <<"%","3","F">>>>, <<"@", <<"%","4","0">>>> >>

RECURSIVE quote_plus(_)
\* urllib.parse.quote_plus(text)
quote_plus(text) ==
    IF text = << >> THEN << >>
    ELSE LET escaped == {i \in 1..Len(Escapes) : Escapes[i][1] = Head(text)}
         IN  (IF escaped = {} THEN <<Head(text)>> ELSE Escapes[CHOOSE i \in escaped : TRUE][2])
             \o quote_plus(Tail(text))

RECURSIVE unquote_plus(_)
\* urllib.parse.unquote(text.replace('+', ' '))
unquote_plus(text) ==
    IF text = << >> THEN << >>
    ELSE LET escaped == {i \in 1..Len(Escapes) :
                            /\ Head(text) = "%"
                            /\ Len(text) >= 3
                            /\ Escapes[i][2] = SubSeq(text, 1, 3)}
         IN  IF Head(text) = "+" THEN <<" ">> \o unquote_plus(Tail(text))
             ELSE IF escaped = {} THEN <<Head(text)>> \o unquote_plus(Tail(text))
             ELSE <<Escapes[CHOOSE i \in escaped : TRUE][1]>> \o unquote_plus(From(text, 4))

\* urllib.parse.parse_qs(query, keep_blank_values=True), as the list of its (key, value) pairs
parse_qs(query) ==
    LET pieces == SelectSeq(Split(query, "&"), LAMBDA piece : piece # << >>)
        Pair(piece) ==
            LET eq == Find(piece, {"="}, 1)
            IN  IF eq = 0 THEN <<unquote_plus(piece), << >>>>
                ELSE <<unquote_plus(SubSeq(piece, 1, eq - 1)), unquote_plus(From(piece, eq + 1))>>
    IN  [i \in 1..Len(pieces) |-> Pair(pieces[i])]

RECURSIVE Sorted(_)
\* sorted(keys)
Sorted(keys) ==
    IF keys = {} THEN << >>
    ELSE LET first == CHOOSE k \in keys : \A other \in keys \ {k} : StrLess(k, other)
         IN  <<first>> \o Sorted(keys \ {first})

\* urllib.parse.urlencode(pairs, doseq=True)
urlencode(pairs) ==
    LET Item(pair) == <<"&">> \o quote_plus(pair[1]) \o <<"=">> \o quote_plus(pair[2])
        Items[i \in 0..Len(pairs)] == IF i = 0 THEN << >> ELSE Items[i - 1] \o Item(pairs[i])
    IN  IF pairs = << >> THEN << >> ELSE Tail(Items[Len(pairs)])

\* the test of _strip_tracking_params that drops a parameter
IsTracking(key) ==
    \/ Lower(key) \in TRACKING_PARAMS
    \/ \E suffix \in SESSION_PATTERNS : EndsWith(Lower(key), suffix)

\* URLNormalizer._strip_tracking_params(url)
_strip_tracking_params(url) ==
    LET Rebuild(parsed, clean, keys) ==
            LET OfKey(key) == SelectSeq(clean, LAMBDA pair : pair[1] = key)
                SortedParams[i \in 0..Len(keys)] ==
                    IF i = 0 THEN << >> ELSE SortedParams[i - 1] \o OfKey(keys[i])
            IN  urlunparse([parsed EXCEPT !.query = urlencode(SortedParams[Len(keys)])])
        Cleaned(parsed, clean) ==
            Rebuild(parsed, clean, Sorted({clean[i][1] : i \in 1..Len(clean)}))
        Parse(parsed) ==
            IF parsed.query = << >> THEN url
            ELSE Cleaned(parsed, SelectSeq(parse_qs(parsed.query),
                                           LAMBDA pair : ~IsTracking(pair[1])))
    IN  Parse(urlparse(url))

RECURSIVE CollapseSlashes(_)
\* re.sub(r'/+', '/', path)
CollapseSlashes(path) ==
    IF Len(path) < 2 THEN path
    ELSE IF path[1] = "/" /\ path[2] = "/" THEN CollapseSlashes(Tail(path))
    ELSE <<Head(path)>> \o CollapseSlashes(Tail(path))

\* URLNormalizer._normalize_path(url)
_normalize_path(url) ==
    LET Rebuild(parsed, collapsed) ==
            LET trimmed == IF Len(collapsed) > 1 /\ collapsed[Len(collapsed)] = "/"
                           THEN SubSeq(collapsed, 1, Len(collapsed) - 1) ELSE collapsed
            IN  urlunparse([parsed EXCEPT !.path = IF trimmed = << >> THEN <<"/">> ELSE trimmed])
        Parse(parsed) == Rebuild(parsed, CollapseSlashes(parsed.path))
    IN  Parse(urlparse(url))

\* the key normalized_url of URLNormalizer.normalize_url(url)
normalized_url(url) ==
    LET Rebuild(parsed, info) ==
            LET netloc == IF \/ parsed.scheme = <<"h","t","t","p">> /\ info.port = 80
                             \/ parsed.scheme = <<"h","t","t","p","s">> /\ info.port = 443
                          THEN info.hostname
                          ELSE IF info.port > 0
                          THEN info.hostname \o <<":">> \o NumStr(info.port, 10)
                          ELSE info.hostname
            IN  IF info.port = 0 - 2 THEN url
                ELSE _normalize_path(_strip_tracking_params(
                         urlunparse([parsed EXCEPT !.netloc = netloc])))
        Parse(parsed) == Rebuild(parsed, HostInfo(parsed.netloc))
    IN  Parse(urlparse(Strip(url)))

\* the URL texts normalize_url is called with
UrlPrefixes == {
    <<"h","t","t","p",":","/","/","h",".","c","o">>,
    <<"H","T","T","P","S",":","/","/","H",".","C","o">>,
    <<" ","h","t","t","p",":","/","/","u","@","h",".","c","o">> }
UrlPorts == {<< >>, <<":","8","0">>, <<":","4","4","3">>, <<":","8","0","8","0">>, <<":","9","9","9","9","9">>}
PathChars == {"/", "a", ";", " "}
MaxPathLen == 4
UrlPaths == {<< >>} \cup UNION {{<<"/">> \o rest : rest \in [1..n -> PathChars]} : n \in 0..(MaxPathLen - 1)}
UrlQueries == {
    << >>,
    <<"?">>,
    <<"?","b","=","1","&","a","=","2">>,
    <<"?","t","=","1">>,
    <<"?","a","=","1","&","x","_","v","=","2","&","a","=">>,
    <<"?","a","=","1","=","2","&","&","B">> }
UrlFragments == {<< >>, <<"#","f">>}
NormalizedInputs ==
    {prefix \o port \o path \o query \o fragment :
        prefix \in UrlPrefixes, port \in UrlPorts, path \in UrlPaths,
        query \in UrlQueries, fragment \in UrlFragments}

NormalizeInit ==
    /\ n_pc = "start"
    /\ n_url \in NormalizedInputs
    /\ n_once = << >>
    /\ n_twice = << >>
    /\ FetchIdle /\ BrandIdle /\ AnalyzeIdle /\ StoreIdle

\* normalize_url(url)
Normalize ==
    /\ n_pc = "start"
    /\ n_pc' = "once"
    /\ n_once' = normalized_url(n_url)
    /\ UNCHANGED <<n_url, n_twice>>
    /\ UNCHANGED NotNormalize

\* normalize_url applied to the normalized_url it returned
NormalizeAgain ==
    /\ n_pc = "once"
    /\ n_pc' = "twice"
    /\ n_twice' = normalized_url(n_once)
    /\ UNCHANGED <<n_url, n_once>>
    /\ UNCHANGED NotNormalize

NormalizeNext == Normalize \/ NormalizeAgain

SpecNormalize == NormalizeInit /\ [][NormalizeNext]_vars

----------------------------------------------------------------------------
(* Tier0Analyzer *)

\* what a stage hands back: a (score, reasons) pair, or an exception
Returned(score, reasons) == [raised |-> FALSE, score |-> score, reasons |-> reasons]
Raised == [raised |-> TRUE, score |-> 0, reasons |-> << >>]

AnalysisResult(verdict, score, reasons, escalate_to_tier1) ==
    [verdict |-> verdict, score |-> score, reasons |-> reasons,
     escalate_to_tier1 |-> escalate_to_tier1]

NoAnalysis == AnalysisResult("none", 0, {}, FALSE)

Range(s) == {s[i] : i \in 1..Len(s)}

\* the TLD lists of _analyze_domain, written with their leading dots
very_suspicious_tld_list == {
    <<".","t","k">>, <<".","m","l">>, <<".","g","a">>, <<".","c","f">> }
questionable_tld_list == {
    <<".","t","o","p">>, <<".","c","l","i","c","k">>, <<".","d","o","w","n","l","o","a","d">>,
    <<".","s","t","r","e","a","m">> }

_analyze_domain(url_info) ==
    LET domain           == url_info.domain
        reputation_score == get_domain_score(domain)
        reasons0 == IF reputation_score <= 0 - 2 THEN <<"reputable_domain">>
                    ELSE IF reputation_score >= 2 THEN <<"suspicious_domain">>
                    ELSE << >>
        tld       == Lower(url_info.tld)
        very      == tld \in very_suspicious_tld_list
        quest     == ~very /\ tld \in questionable_tld_list
        tld_w     == get_heuristic_weight("domain_reputation",
                         IF very THEN "very_suspicious_tld" ELSE "suspicious_tld")
        score1    == reputation_score + (IF very \/ quest THEN tld_w.weight ELSE 0)
        reasons1  == IF very THEN Append(reasons0, "suspicious_tld")
                     ELSE IF quest THEN Append(reasons0, "questionable_tld")
                     ELSE reasons0
        subdomain_count == Len(domain) - 2
        sub_w     == get_heuristic_weight("url_structure", "excessive_subdomains")
    IN  IF domain = << >> THEN Returned(1, <<"invalid_domain">>)
        ELSE IF (very \/ quest) /\ tld_w.raises THEN Raised
        ELSE IF subdomain_count > 3
        THEN IF sub_w.raises THEN Raised
             ELSE Returned(score1 + sub_w.weight, Append(reasons1, "excessive_subdomains"))
        ELSE Returned(score1, reasons1)

suspicious_path_words == {
    <<"v","e","r","i","f","y">>, <<"c","o","n","f","i","r","m">>, <<"u","p","d","a","t","e">>,
    <<"s","e","c","u","r","e">>, <<"a","c","c","o","u","n","t">>, <<"l","o","g","i","n">>,
    <<"s","i","g","n","i","n">>, <<"p","a","y","m","e","n","t">> }

url_shortener_literals == {
    <<"b","i","t",".","l","y">>, <<"t","i","n","y","u","r","l">>, <<"t",".","c","o">>,
    <<"g","o","o",".","g","l">>, <<"s","h","o","r","t",".","l","i","n","k">> }

IsAlnum(c) == c \in Letters \cup Digits09

\* patterns['suspicious_path'], patterns['random_string'], patterns['url_shortener']
MatchesSuspiciousPath(path) ==
    \E i \in 1..(Len(path) - 1) : Lower(path[i]) \in suspicious_path_words
MatchesRandomString(path) ==
    \E i \in 1..Len(path) :
        Len(path[i]) >= 20 /\ \A k \in 1..20 : IsAlnum(LowerChar(path[i][k]))
MatchesUrlShortener(text) == \E lit \in url_shortener_literals : Contains(text, lit)

\* a chain of "if pattern: score += get_heuristic_weight(..); reasons.append(..)"
\* steps: hits are <<matched, weight lookup, reason>> triples, in order
RECURSIVE WeighSignals(_, _, _)
WeighSignals(hits, score, reasons) ==
    IF hits = << >> THEN Returned(score, reasons)
    ELSE LET h == Head(hits)
         IN  IF ~h[1] THEN WeighSignals(Tail(hits), score, reasons)
             ELSE IF h[2].raises THEN Raised
             ELSE WeighSignals(Tail(hits), score + h[2].weight, Append(reasons, h[3]))

_analyze_url_structure(url_info) ==
    WeighSignals(
        << <<MatchesSuspiciousPath(url_info.path),
             get_heuristic_weight("url_structure", "suspicious_path"), "suspicious_path">>,
           <<MatchesRandomString(url_info.path),
             get_heuristic_weight("url_structure", "random_string"), "random_string_path">>,
           <<MatchesUrlShortener(url_info.normalized_url),
             get_heuristic_weight("url_structure", "url_shortener"), "url_shortener">> >>,
        0, << >>)

\* the outcomes of _analyze_brand_similarity(url_info): only the host reaches
\* get_brand_similarity_score
_analyze_brand_similarity(url_info) ==
    IF url_info.domain = << >> THEN {Returned(0, << >>)}
    ELSE {LET similarity_result == get_brand_similarity_score(similar_brands)
          IN  Returned(similarity_result.score, similarity_result.reasons) :
             similar_brands \in find_similar_brands(Candidate(url_info.domain, << >>, << >>))}

\* a content excerpt: empty or not, what check_suspicious_keywords totals for
\* it, and whether it holds a form posting off-site
Content(empty, total_weight, offsite_forms) ==
    [empty |-> empty, total_weight |-> total_weight, offsite_forms |-> offsite_forms]

\* the try body of _analyze_content (lines 334-370), for a non-empty content
ContentBody(content) ==
    IF "total_score" \notin KeywordAnalysisKeys THEN Raised      \* KeyError
    ELSE LET form_w == get_heuristic_weight("content_analysis", "offsite_form_action")
         IN  IF content.offsite_forms
             THEN IF form_w.raises THEN Raised
                  ELSE Returned(content.total_weight + form_w.weight, <<"offsite_form_action">>)
             ELSE Returned(content.total_weight, << >>)

\* _analyze_content: its except clause (lines 372-375) turns an exception of
\* the body into a score of 1 with a reason
_analyze_content(content, url_info) ==
    IF content.empty THEN Returned(0, << >>)
    ELSE IF ContentBody(content).raised THEN Returned(1, <<"content_analysis_error">>)
    ELSE ContentBody(content)

\* the fetch_result argument: None or a FetchResult (which has no field 'error')
FetchResultArg(present, redirects, was_blocked, fetch_time_ms) ==
    [present |-> present, redirect_count |-> redirects, was_blocked |-> was_blocked,
     fetch_time_ms |-> fetch_time_ms]

_analyze_technical_indicators(fetch_result, url_info) ==
    LET weighed == WeighSignals(
            << <<StartsWith(url_info.normalized_url, <<"h","t","t","p",":","/","/">>),
                 get_heuristic_weight("technical_signals", "no_https"), "no_https">>,
               <<fetch_result.redirect_count > 3,
                 get_heuristic_weight("technical_signals", "suspicious_redirects"),
                 "excessive_redirects">>,
               <<fetch_result.was_blocked,
                 get_heuristic_weight("technical_signals", "blocked_by_security"),
                 "blocked_by_security">> >>,
            0, << >>)
    IN  IF weighed.raised THEN Raised
        ELSE IF fetch_result.fetch_time_ms > 10000
        THEN Returned(weighed.score + 1, Append(weighed.reasons, "site_slow_response"))
        ELSE weighed

\* the reasons that contain the text 'brand'
BrandReasons == {"brand_impersonation_high_risk", "brand_impersonation", "brand_similarity"}

_should_escalate_to_tier1(score, reasons, verdict) ==
    \/ /\ verdict = "warning" /\ score >= 2
       /\ Range(reasons) \cap {"financial_verification_request", "unverified_health_claims",
                               "brand_impersonation", "brand_similarity"} # {}
    \/ Range(reasons) \cap BrandReasons # {}

\* "score += ..; reasons.extend(..)" after a stage handed back r; the stage's
\* own except clause swallows an exception and leaves both unchanged
AfterStage(r) ==
    IF r.raised THEN UNCHANGED <<a_score, a_reasons>>
    ELSE /\ a_score' = a_score + r.score
         /\ a_reasons' = a_reasons \o r.reasons

AnalyzedSubdomains == {<< >>, <<<<"w","w","w">>>>, <<<<"m","a","i","l">>>>, <<<<"a">>, <<"b">>, <<"c">>>>, <<<<"a">>, <<"b">>, <<"c">>, <<"d">>>>}

AnalyzedDomains == {
    <<<<"g","o","o","g","l","e">>, <<"c","o","m">>>>,
    <<<<"c","h","a","s","e">>, <<"c","o","m">>>>, <<<<"i","r","s">>, <<"g","o","v">>>>,
    <<<<"e","b","a","y">>, <<"c","o","m">>>>, <<<<"t","a","r","g","e","t">>, <<"c","o","m">>>>,
    <<<<"e","x","a","m","p","l","e">>, <<"c","o","m">>>>,
    <<<<"c","h","a","s","e">>, <<"t","k">>>>, <<<<"g","0","0","g","l","e">>, <<"c","o","m">>>>,
    <<<<"1","2","3","4","5","6">>, <<"t","k">>>> }

\* the empty text
EmptyUrl == UrlText(<< >>, << >>, 0 - 1, << >>)

AnalyzedUrls ==
    {EmptyUrl} \cup
    {UrlText(scheme, sub \o d, port, path) :
        scheme \in {<<"h","t","t","p","s">>, <<"h","t","t","p">>, << >>}, sub \in AnalyzedSubdomains, d \in AnalyzedDomains,
        port \in {0 - 1, 99999}, path \in {<< >>, <<<<"l","o","g","i","n">>, <<"x">>>>}}

NoFetchResult == FetchResultArg(FALSE, 0, FALSE, 0)

FetchResultArgs ==
    {NoFetchResult, FetchResultArg(TRUE, 0, FALSE, 250), FetchResultArg(TRUE, 1, FALSE, 12000),
     FetchResultArg(TRUE, 0, TRUE, 250)}

ContentArgs == {Content(TRUE, 0, FALSE), Content(FALSE, 0, FALSE), Content(FALSE, 3, TRUE)}

\* the thresholds heuristic_weights.json holds: those of the data file, and
\* a stricter configuration
ThresholdConfigurations ==
    {heuristic_weights_json, [thresholds |-> [danger |-> 5, warning |-> 3]]}

AnalyzeInit ==
    /\ FetchIdle
    /\ BrandIdle
    /\ StoreIdle
    /\ NormalizeIdle
    /\ a_pc = "start"
    /\ a_url \in AnalyzedUrls
    /\ a_fetch \in FetchResultArgs
    /\ a_content \in ContentArgs
    /\ a_weights \in ThresholdConfigurations
    /\ a_score = 0
    /\ a_reasons = << >>
    /\ a_domain_score = 0
    /\ a_result = NoAnalysis

\* analyze, lines 73-103: normalization, the domain stage and the early return
AnalyzeDomain ==
    /\ a_pc = "start"
    /\ LET r == _analyze_domain(normalize_url(a_url))
       IN  IF r.raised
           THEN /\ a_pc' = "except"
                /\ UNCHANGED <<a_score, a_reasons, a_domain_score, a_result>>
           ELSE /\ a_score' = r.score
                /\ a_reasons' = r.reasons
                /\ a_domain_score' = r.score
                /\ IF r.score <= 0 - 2
                   THEN /\ a_result' = AnalysisResult("ok", r.score, Range(r.reasons), FALSE)
                        /\ a_pc' = "done"
                   ELSE /\ a_pc' = "url"
                        /\ UNCHANGED a_result
    /\ UNCHANGED <<a_url, a_fetch, a_content, a_weights>>
    /\ UNCHANGED NotAnalyze

\* analyze, lines 105-112
AnalyzeUrlStructure ==
    /\ a_pc = "url"
    /\ AfterStage(_analyze_url_structure(normalize_url(a_url)))
    /\ a_pc' = "brand"
    /\ UNCHANGED <<a_url, a_fetch, a_content, a_weights, a_domain_score, a_result>>
    /\ UNCHANGED NotAnalyze

\* analyze, lines 114-121
AnalyzeBrandSimilarity ==
    /\ a_pc = "brand"
    /\ \E r \in _analyze_brand_similarity(normalize_url(a_url)) :
          AfterStage(r)
    /\ a_pc' = "content"
    /\ UNCHANGED <<a_url, a_fetch, a_content, a_weights, a_domain_score, a_result>>
    /\ UNCHANGED NotAnalyze

\* analyze, lines 123-136
AnalyzeContent ==
    /\ a_pc = "content"
    /\ IF a_content.empty
       THEN UNCHANGED <<a_score, a_reasons>>
       ELSE LET r == _analyze_content(a_content, normalize_url(a_url))
            IN  IF r.raised /\ a_domain_score >= 0
                THEN /\ a_reasons' = Append(a_reasons, "analysis_error")
                     /\ a_score' = a_score + 1
                ELSE AfterStage(r)
    /\ a_pc' = "tech"
    /\ UNCHANGED <<a_url, a_fetch, a_content, a_weights, a_domain_score, a_result>>
    /\ UNCHANGED NotAnalyze

\* analyze, lines 138-146
AnalyzeTechnical ==
    /\ a_pc = "tech"
    /\ IF a_fetch.present
       THEN AfterStage(_analyze_technical_indicators(a_fetch, normalize_url(a_url)))
       ELSE UNCHANGED <<a_score, a_reasons>>
    /\ a_pc' = "verdict"
    /\ UNCHANGED <<a_url, a_fetch, a_content, a_weights, a_domain_score, a_result>>
    /\ UNCHANGED NotAnalyze

\* analyze, lines 148-160
AnalyzeVerdict ==
    /\ a_pc = "verdict"
    /\ LET verdict == score_to_verdict(a_weights, a_score)
       IN  a_result' = AnalysisResult(verdict, a_score, Range(a_reasons),
                                      _should_escalate_to_tier1(a_score, a_reasons, verdict))
    /\ a_pc' = "done"
    /\ UNCHANGED <<a_url, a_fetch, a_content, a_weights, a_score, a_reasons, a_domain_score>>
    /\ UNCHANGED NotAnalyze

AnalyzeCriticalError_mut ==
    /\ a_pc = "except"
    /\ a_pc' = "raised"
    /\ UNCHANGED <<a_url, a_fetch, a_content, a_weights, a_score, a_reasons, a_domain_score, a_result>>
    /\ UNCHANGED NotAnalyze

\* analyze, lines 162-187: the handler of an exception that left the stages
AnalyzeCriticalError ==
    /\ a_pc = "except"
    /\ LET domain_score == get_domain_score(normalize_url(a_url).domain)
       IN  a_result' = IF domain_score <= 0 - 2
                       THEN AnalysisResult("ok", domain_score, {"reputable_domain"}, FALSE)
                       ELSE AnalysisResult("warning", 2, {"analysis_error"}, FALSE)
    /\ a_pc' = "done"
    /\ UNCHANGED <<a_url, a_fetch, a_content, a_weights, a_score, a_reasons, a_domain_score>>
    /\ UNCHANGED NotAnalyze

AnalyzeNext ==
    \/ AnalyzeDomain
    \/ AnalyzeUrlStructure
    \/ AnalyzeBrandSimilarity
    \/ AnalyzeContent
    \/ AnalyzeTechnical
    \/ AnalyzeVerdict
    \/ AnalyzeCriticalError

SpecAnalyze == AnalyzeInit /\ [][AnalyzeNext]_vars

----------------------------------------------------------------------------
(* ReputationService: loading the data files, reloading them, and a reader *)

\* what open / json.load make of a data file; a JSON object with several keys
\* in file order is a sequence of <<key, value>> pairs, {} is << >>
Missing == [kind |-> "missing"]
Corrupt == [kind |-> "corrupt"]
Json(data) == [kind |-> "json", data |-> data]

paypal_com == <<<<"p","a","y","p","a","l">>, <<"c","o","m">>>>
PayPal_Com == <<<<"P","a","y","P","a","l">>, <<"C","o","m">>>>
chase_com  == <<<<"c","h","a","s","e">>, <<"c","o","m">>>>
mail_google_com == <<<<"m","a","i","l">>>> \o google_com
example_tk == <<<<"e","x","a","m","p","l","e">>, <<"t","k">>>>
example_ml == <<<<"e","x","a","m","p","l","e">>, <<"m","l">>>>
WWW_Amazon_Com == <<<<"W","W","W">>, <<"A","m","a","z","o","n">>, <<"C","o","m">>>>
shop_amazon_com == <<<<"s","h","o","p">>>> \o amazon_com
shop_example_tk == <<<<"s","h","o","p">>>> \o example_tk
paypal_tk == <<<<"p","a","y","p","a","l">>, <<"t","k">>>>

\* the files the instance was constructed from
OldFiles ==
    [reputable_domains |->
        Json([domains |-> <<<<google_com, [score |-> 0 - 2]>>, <<amazon_com, [score |-> 0 - 2]>>,
                            <<mail_google_com, [score |-> 0 - 1]>>, <<example_tk, [score |-> 0 - 1]>>>>]),
     brand_categories |->
        Json([categories |-> <<<<"financial", <<paypal_com>>>>, <<"tech", <<google_com>>>>>>]),
     suspicious_indicators |->
        Json([suspicious_tlds |-> [high_risk |-> <<<<".","t","k">>>>]]),
     heuristic_weights |-> Json(heuristic_weights_json)]

\* what the files may hold when the reload reads them
NewFiles ==
    [reputable_domains : {Missing, Corrupt,
        Json([domains |-> <<<<google_com, [score |-> 0 - 3]>>, <<PayPal_Com, << >>>>>>])},
     brand_categories : {Missing, Corrupt,
        Json([categories |-> <<<<"financial", <<PayPal_Com, chase_com>>>>, <<"tech", <<google_com>>>>>>])},
     suspicious_indicators : {Missing, Corrupt,
        Json([suspicious_tlds |-> [high_risk |-> <<<<".","T","K">>>>,
                                   medium_risk |-> <<<<".","m","l">>>>]])},
     heuristic_weights : {Missing, Corrupt,
        Json([thresholds |-> [danger |-> 5, warning |-> 3]]),
        Json([thresholds |-> [warning |-> 1]]),
        Json([thresholds |-> [danger |-> 1, warning |-> 3]])}]

RECURSIVE LStrip(_)
\* tld.lstrip('.')
LStrip(s) == IF s # << >> /\ s[1] = "." THEN LStrip(Tail(s)) ELSE s

RECURSIVE Concat(_)
\* the items a nested loop visits, in order
Concat(lists) == IF lists = << >> THEN << >> ELSE Head(lists) \o Concat(Tail(lists))

\* the domains the loops of lines 166-168 visit, in order
BrandList(brand_categories) ==
    Concat([i \in 1..Len(brand_categories) |-> brand_categories[i][2]])

\* the TLDs the loops of lines 172-179 visit, in order
TldList(suspicious_indicators) ==
    LET suspicious_data == Get(suspicious_indicators, "suspicious_tlds", << >>)
    IN  Get(suspicious_data, "high_risk", << >>) \o Get(suspicious_data, "medium_risk", << >>)

RECURSIVE ScoresAfter(_, _)
\* self.domain_scores after n rounds of the loop of lines 160-162
ScoresAfter(reputable_domains, n) ==
    IF n = 0 THEN << >>
    ELSE LET domain == reputable_domains[n][1]
             info   == reputable_domains[n][2]
         IN  (LowerAll(domain) :> Get(info, "score", 0)) @@ ScoresAfter(reputable_domains, n - 1)

\* the set built by n rounds of the loops of lines 166-168
BrandsAfter(brand_categories, n) ==
    {LowerAll(BrandList(brand_categories)[i]) : i \in 1..n}

\* the set built by n rounds of the loops of lines 174-179
TldsAfter(suspicious_indicators, n) ==
    {Lower(LStrip(TldList(suspicious_indicators)[i])) : i \in 1..n}

\* the value a _load_* method assigns for a readable file (lines 107, 122, 137, 151)
FileValue(files, attr) ==
    CASE files[attr].kind = "missing" -> << >>
      [] attr = "reputable_domains" -> Get(files[attr].data, "domains", << >>)
      [] attr = "brand_categories" -> Get(files[attr].data, "categories", << >>)
      [] OTHER -> files[attr].data

\* the instance after load_all_data has run to its end on readable files; the
\* object behind brand_domains is named, its contents are given beside it
Loaded(files, brands_object) ==
    LET reputable_domains     == FileValue(files, "reputable_domains")
        brand_categories      == FileValue(files, "brand_categories")
        suspicious_indicators == FileValue(files, "suspicious_indicators")
    IN  [reputable_domains |-> reputable_domains,
         brand_categories |-> brand_categories,
         suspicious_indicators |-> suspicious_indicators,
         heuristic_weights |-> FileValue(files, "heuristic_weights"),
         domain_scores |-> ScoresAfter(reputable_domains, Len(reputable_domains)),
         brand_domains |-> brands_object,
         suspicious_tlds |-> TldsAfter(suspicious_indicators,
                                       Len(TldList(suspicious_indicators)))]

\* the instance as __init__ leaves it, and the set it built for brand_domains
PreStore == Loaded(OldFiles, "old")
PreBrands ==
    LET brand_categories == FileValue(OldFiles, "brand_categories")
    IN  BrandsAfter(brand_categories, Len(BrandList(brand_categories)))

\* the contents of a set object that brand_domains has referred to
SetContents(object) == IF object = "old" THEN PreBrands ELSE s_new_brands

NoCall == << >>

StoreInit ==
    /\ FetchIdle
    /\ BrandIdle
    /\ AnalyzeIdle
    /\ NormalizeIdle
    /\ s_files \in NewFiles
    /\ s_store = PreStore
    /\ s_new_brands = {}
    /\ l_pc = "idle"
    /\ l_i = 0
    /\ l_result = NoCall
    /\ q_pc = "idle"
    /\ q_arg = << >>
    /\ q_iter = << >>
    /\ q_result = NoCall

lvars == <<s_files, s_store, s_new_brands, l_pc, l_i, l_result>>
qvars == <<q_pc, q_arg, q_iter, q_result>>

\* the reload call is entered: nothing returned yet
Enter(call) == l_result' = [call |-> call, value |-> FALSE, outcome |-> "running"]

\* the reload call returns
Return(value, outcome) ==
    /\ l_pc' = "returned"
    /\ l_result' = [call |-> IF l_result = NoCall THEN "hot_reload_if_needed" ELSE l_result.call,
                    value |-> value, outcome |-> outcome]

\* hot_reload_if_needed (lines 818-823): reloads when the interval has passed
hot_reload_if_needed ==
    /\ l_pc = "idle"
    /\ \E interval_passed \in BOOLEAN :
          IF interval_passed
          THEN l_pc' = "reputable_domains" /\ Enter("hot_reload_if_needed")
          ELSE Return(FALSE, "not_due")
    /\ UNCHANGED <<s_files, s_store, s_new_brands, l_i>>
    /\ UNCHANGED qvars
    /\ UNCHANGED NotStore

\* load_all_data called directly (the reload endpoint)
load_all_data ==
    /\ l_pc = "idle"
    /\ l_pc' = "reputable_domains"
    /\ Enter("load_all_data")
    /\ UNCHANGED <<s_files, s_store, s_new_brands, l_i>>
    /\ UNCHANGED qvars
    /\ UNCHANGED NotStore

\* one _load_* method: a missing file empties the attribute, an unreadable one
\* raises into the handler of load_all_data (lines 92-94), a readable one is assigned
LoadFile(attr, next) ==
    /\ l_pc = attr
    /\ IF s_files[attr].kind = "corrupt"
       THEN Return(FALSE, "failed") /\ UNCHANGED s_store
       ELSE /\ s_store' = [s_store EXCEPT ![attr] = FileValue(s_files, attr)]
            /\ l_pc' = next
            /\ UNCHANGED l_result
    /\ UNCHANGED <<s_files, s_new_brands, l_i>>
    /\ UNCHANGED qvars
    /\ UNCHANGED NotStore

_load_reputable_domains    == LoadFile("reputable_domains", "brand_categories")
_load_brand_domains        == LoadFile("brand_categories", "suspicious_indicators")
_load_suspicious_indicators == LoadFile("suspicious_indicators", "heuristic_weights")
_load_heuristic_weights    == LoadFile("heuristic_weights", "clear_scores")

\* _build_lookup_caches, line 158
ClearDomainScores ==
    /\ l_pc = "clear_scores"
    /\ s_store' = [s_store EXCEPT !.domain_scores = << >>]
    /\ l_i' = 0
    /\ l_pc' = "fill_scores"
    /\ UNCHANGED <<s_files, s_new_brands, l_result>>
    /\ UNCHANGED qvars
    /\ UNCHANGED NotStore

\* _build_lookup_caches, lines 160-162: one round of the loop, or its end
FillDomainScores ==
    /\ l_pc = "fill_scores"
    /\ IF l_i < Len(s_store.reputable_domains)
       THEN /\ s_store' = [s_store EXCEPT !.domain_scores =
                              ScoresAfter(s_store.reputable_domains, l_i + 1)]
            /\ l_i' = l_i + 1
            /\ UNCHANGED l_pc
       ELSE /\ l_pc' = "clear_brands"
            /\ UNCHANGED <<s_store, l_i>>
    /\ UNCHANGED <<s_files, s_new_brands, l_result>>
    /\ UNCHANGED qvars
    /\ UNCHANGED NotStore

\* _build_lookup_caches, line 165: brand_domains refers to a new, empty set
ClearBrandDomains ==
    /\ l_pc = "clear_brands"
    /\ s_store' = [s_store EXCEPT !.brand_domains = "new"]
    /\ s_new_brands' = {}
    /\ l_i' = 0
    /\ l_pc' = "fill_brands"
    /\ UNCHANGED <<s_files, l_result>>
    /\ UNCHANGED qvars
    /\ UNCHANGED NotStore

\* _build_lookup_caches, lines 166-168
FillBrandDomains ==
    /\ l_pc = "fill_brands"
    /\ IF l_i < Len(BrandList(s_store.brand_categories))
       THEN /\ s_new_brands' = BrandsAfter(s_store.brand_categories, l_i + 1)
            /\ l_i' = l_i + 1
            /\ UNCHANGED l_pc
       ELSE /\ l_pc' = "clear_tlds"
            /\ UNCHANGED <<s_new_brands, l_i>>
    /\ UNCHANGED <<s_files, s_store, l_result>>
    /\ UNCHANGED qvars
    /\ UNCHANGED NotStore

\* _build_lookup_caches, line 171
ClearSuspiciousTlds ==
    /\ l_pc = "clear_tlds"
    /\ s_store' = [s_store EXCEPT !.suspicious_tlds = {}]
    /\ l_i' = 0
    /\ l_pc' = "fill_tlds"
    /\ UNCHANGED <<s_files, s_new_brands, l_result>>
    /\ UNCHANGED qvars
    /\ UNCHANGED NotStore

\* _build_lookup_caches, lines 172-179, and the return of load_all_data (lines 83-90)
FillSuspiciousTlds ==
    /\ l_pc = "fill_tlds"
    /\ IF l_i < Len(TldList(s_store.suspicious_indicators))
       THEN /\ s_store' = [s_store EXCEPT !.suspicious_tlds =
                              TldsAfter(s_store.suspicious_indicators, l_i + 1)]
            /\ l_i' = l_i + 1
            /\ UNCHANGED <<l_pc, l_result>>
       ELSE /\ Return(TRUE, "loaded")
            /\ UNCHANGED <<s_store, l_i>>
    /\ UNCHANGED <<s_files, s_new_brands>>
    /\ UNCHANGED qvars
    /\ UNCHANGED NotStore

\* the arguments of the reader calls
ReaderDomains == {<< >>, google_com, mail_google_com, amazon_com, WWW_Amazon_Com, shop_amazon_com,
                  paypal_com, paypal_tk, example_tk, shop_example_tk, example_ml}
ReaderScores == (0 - 3)..6

Value(op, value) == [op |-> op, raised |-> "none", value |-> value]
Raises(op, error) == [op |-> op, raised |-> error, value |-> 0]

\* the reader call returns or raises
ReaderReturn(result) ==
    /\ q_pc' = "returned"
    /\ q_result' = result

\* get_domain_score(domain), lines 183-191: the empty domain and the direct lookup test
GetDomainScore ==
    /\ q_pc = "idle"
    /\ \E domain \in ReaderDomains :
          /\ q_arg' = domain
          /\ IF domain = << >>
             THEN ReaderReturn(Value("get_domain_score", 0))
             ELSE IF StripWww(LowerAll(domain)) \in DOMAIN s_store.domain_scores
             THEN q_pc' = "direct" /\ UNCHANGED q_result
             ELSE q_pc' = "parent" /\ UNCHANGED q_result
    /\ UNCHANGED q_iter
    /\ UNCHANGED lvars
    /\ UNCHANGED NotStore

\* line 192: self.domain_scores[d], read again after the test
ReturnDirect ==
    /\ q_pc = "direct"
    /\ LET d == StripWww(LowerAll(q_arg))
       IN  IF d \in DOMAIN s_store.domain_scores
           THEN ReaderReturn(Value("get_domain_score", s_store.domain_scores[d]))
           ELSE ReaderReturn(Raises("get_domain_score", "KeyError"))
    /\ UNCHANGED <<q_arg, q_iter>>
    /\ UNCHANGED lvars
    /\ UNCHANGED NotStore

ParentTest_mut ==
    /\ q_pc = "parent"
    /\ q_pc' = "tld"
    /\ UNCHANGED <<q_arg, q_iter, q_result>>
    /\ UNCHANGED lvars
    /\ UNCHANGED NotStore

\* lines 195-198: the parent domain test
ParentTest ==
    /\ q_pc = "parent"
    /\ LET parts == StripWww(LowerAll(q_arg))
       IN  IF Len(parts) > 2 /\ LastN(parts, 2) \in DOMAIN s_store.domain_scores
           THEN q_pc' = "parent_hit"
           ELSE q_pc' = "tld"
    /\ UNCHANGED <<q_arg, q_iter, q_result>>
    /\ UNCHANGED lvars
    /\ UNCHANGED NotStore

\* line 199
ReturnParent ==
    /\ q_pc = "parent_hit"
    /\ LET parent == LastN(StripWww(LowerAll(q_arg)), 2)
       IN  IF parent \in DOMAIN s_store.domain_scores
           THEN ReaderReturn(Value("get_domain_score", s_store.domain_scores[parent]))
           ELSE ReaderReturn(Raises("get_domain_score", "KeyError"))
    /\ UNCHANGED <<q_arg, q_iter>>
    /\ UNCHANGED lvars
    /\ UNCHANGED NotStore

\* lines 201-206
TldRisk ==
    /\ q_pc = "tld"
    /\ LET parts == StripWww(LowerAll(q_arg))
       IN  ReaderReturn(Value("get_domain_score",
               IF parts[Len(parts)] \in s_store.suspicious_tlds THEN 2 ELSE 0))
    /\ UNCHANGED <<q_arg, q_iter>>
    /\ UNCHANGED lvars
    /\ UNCHANGED NotStore

\* score_to_verdict(score): one read of self.heuristic_weights (lines 799-816);
\* the result is kept with the attribute value the call read
ScoreToVerdict ==
    /\ q_pc = "idle"
    /\ \E score \in ReaderScores :
          /\ q_arg' = score
          /\ ReaderReturn([op |-> "score_to_verdict", raised |-> "none",
                           value |-> score_to_verdict(s_store.heuristic_weights, score),
                           heuristic_weights |-> s_store.heuristic_weights])
    /\ UNCHANGED q_iter
    /\ UNCHANGED lvars
    /\ UNCHANGED NotStore

\* find_similar_brands, line 262: the for statement takes an iterator of the set
\* brand_domains refers to; the iterator remembers the size of the set
IterBrandDomains ==
    /\ q_pc = "idle"
    /\ q_iter' = [object |-> s_store.brand_domains,
                  size |-> Cardinality(SetContents(s_store.brand_domains)),
                  seen |-> {}]
    /\ q_pc' = "loop"
    /\ UNCHANGED <<q_arg, q_result>>
    /\ UNCHANGED lvars
    /\ UNCHANGED NotStore

\* one round of that loop: the iterator raises RuntimeError when the set has
\* changed size, ends when it has given every brand, gives one more otherwise
NextBrandDomain ==
    /\ q_pc = "loop"
    /\ LET contents == SetContents(q_iter.object)
       IN  IF Cardinality(contents) # q_iter.size
           THEN ReaderReturn(Raises("find_similar_brands", "RuntimeError")) /\ UNCHANGED q_iter
           ELSE IF q_iter.seen = contents
           THEN ReaderReturn(Value("find_similar_brands", q_iter.seen)) /\ UNCHANGED q_iter
           ELSE /\ \E brand_domain \in contents \ q_iter.seen :
                      q_iter' = [q_iter EXCEPT !.seen = @ \cup {brand_domain}]
                /\ UNCHANGED <<q_pc, q_result>>
    /\ UNCHANGED q_arg
    /\ UNCHANGED lvars
    /\ UNCHANGED NotStore

StoreNext ==
    \/ hot_reload_if_needed
    \/ load_all_data
    \/ _load_reputable_domains
    \/ _load_brand_domains
    \/ _load_suspicious_indicators
    \/ _load_heuristic_weights
    \/ ClearDomainScores
    \/ FillDomainScores
    \/ ClearBrandDomains
    \/ FillBrandDomains
    \/ ClearSuspiciousTlds
    \/ FillSuspiciousTlds
    \/ GetDomainScore
    \/ ReturnDirect
    \/ ParentTest
    \/ ReturnParent
    \/ TldRisk
    \/ ScoreToVerdict
    \/ IterBrandDomains
    \/ NextBrandDomain

SpecStore == StoreInit /\ [][StoreNext]_vars

----------------------------------------------------------------------------
(* Claims about URLFetcher.fetch_url *)

\* the fetch was redirected and the target it was last sent to fails _is_valid_url
RedirectedToInvalid ==
    /\ f_pc = "done"
    /\ f_result.redirect_count >= 1
    /\ ~_is_valid_url(f_result.final_url)

GetsAreValidated ==
    /\ \A i \in DOMAIN gets : _is_valid_url(gets[i])
    /\ f_pc = "await" => /\ gets[Len(gets)] = current_url
                         /\ last_check = [url |-> current_url, ok |-> TRUE]

\* C2 as stated: every GET is preceded by a validation of the exact URL requested,
\* no GET goes to a URL that fails _is_valid_url, and every redirect to such a
\* URL ends the fetch with error_reason blocked_by_ssrf.
C2_Original ==
    /\ GetsAreValidated
    /\ RedirectedToInvalid => f_result.error_reason = "blocked_by_ssrf"

\* C2 as amended: every GET is preceded by a validation of the exact URL
\* requested and no GET goes to a URL that fails _is_valid_url; a redirect to
\* such a URL ends the fetch with blocked_by_ssrf when it is one of the first
\* three redirects and with too_many_redirects when it is the fourth.
C2_SsrfCheckedEveryHop ==
    /\ GetsAreValidated
    /\ RedirectedToInvalid =>
         /\ f_result.final_url \notin {gets[i] : i \in DOMAIN gets}
         /\ IF f_result.redirect_count <= 3
            THEN f_result.error_reason = "blocked_by_ssrf"
            ELSE f_result.error_reason = "too_many_redirects"

C2_Witness ==
    /\ RedirectedToInvalid
    /\ f_result.error_reason = "blocked_by_ssrf"
    /\ Len(gets) = f_result.redirect_count

\* C3: _is_valid_url rejects every URL whose host is in 127.*, 10.*, 172.16-31.*,
\* 192.168.*, 169.254.*, ::1, fc00::/7 or is the name localhost.
C3_PrivateHostsRejected ==
    (~last_check.url.malformed /\ InPrivateRange(last_check.url.host)) => ~last_check.ok

HopsAreBounded ==
    /\ Len(gets) <= 4
    /\ Len(gets) <= redirect_count + 1
    /\ f_pc \in {"await", "body"} => Len(gets) = redirect_count + 1
    /\ redirect_count <= 4
    /\ redirect_count = 4 => /\ f_pc = "done"
                             /\ f_result.error_reason = "too_many_redirects"
                             /\ f_result.redirect_count = 4
                             /\ Len(gets) = 4
    /\ get_failed => f_pc = "done"

\* C4: a fetch follows at most 3 redirects with one GET per hop and no retry:
\* at most 4 GETs; 4 consecutive redirects end with too_many_redirects without
\* a GET to the 4th target; after a GET that raised no further GET is made.
C4_BoundedRedirects == []HopsAreBounded /\ [][get_failed => gets' = gets]_vars

C4_Witness ==
    /\ f_pc = "done"
    /\ f_result.error_reason = "too_many_redirects"
    /\ Len(gets) = 4

\* C5: fetch_url never lets an exception escape, and every unsuccessful
\* FetchResult carries a non-empty error_reason.
C5_NeverRaises ==
    /\ f_pc # "raised"
    /\ f_pc = "done" => /\ f_result # NoResult
                        /\ ~f_result.success => f_result.error_reason \notin {NoReason, ""}

C5_Witness ==
    /\ f_pc = "done"
    /\ f_result.error_reason = "unexpected_error_ValueError"
    /\ Len(gets) >= 1

\* C6: a 401, 403 or 451 response at any hop ends the fetch at once with
\* blocked_by_site, a 429 with rate_limited; success is false, was_blocked is
\* true, and neither a redirect is followed nor a body read afterwards.
C6_BlockingStatusTerminates ==
    f_resp.status \in {401, 403, 429, 451} =>
        /\ f_pc = "done"
        /\ f_result.error_reason = (IF f_resp.status = 429 THEN "rate_limited"
                                    ELSE "blocked_by_site")
        /\ ~f_result.success
        /\ f_result.was_blocked
        /\ f_result.status_code = f_resp.status
        /\ f_result.final_url = gets[Len(gets)]
        /\ f_result.redirect_count = Len(gets) - 1
        /\ ~body_read

C6_Witness ==
    /\ f_resp.status = 451
    /\ f_resp.location.kind = "absolute"
    /\ f_result.redirect_count = 2
    /\ f_result.was_blocked

\* the last response was a redirect that was followed through its Location header
FollowedRedirect ==
    /\ f_resp.status \in RedirectStatuses
    /\ f_resp.location.kind # "none"

\* C7: a response whose status is neither 200, nor 401/403/429/451, nor a
\* redirect followed through its Location header ends the fetch with
\* http_error_{status}, a 3xx response without Location included.
C7_OtherStatusIsHttpError ==
    (f_resp.status \notin {0, 200, 401, 403, 429, 451} /\ ~FollowedRedirect) =>
        /\ f_pc = "done"
        /\ f_result.error_reason = "http_error_" \o ToString(f_resp.status)

\* what every returned FetchResult satisfies apart from the meaning of redirect_count
ResultIsConsistent ==
    /\ f_result.success <=> f_result.error_reason = NoReason
    /\ f_result.success => f_result.status_code = 200 /\ f_result.redirect_count <= 3
    /\ f_result.was_blocked => /\ ~f_result.success
                               /\ f_result.status_code \in {401, 403, 429, 451}
    /\ f_result.redirect_count <= 4

\* the redirect targets that were requested with a GET
RedirectsRequested == IF gets = << >> THEN 0 ELSE Len(gets) - 1

\* C28 as stated: every result is consistent and its redirect_count is the
\* number of redirects followed, that is, of redirect targets requested.
C28_Original ==
    f_pc = "done" =>
        /\ ResultIsConsistent
        /\ f_result.redirect_count = RedirectsRequested

\* the result reports a redirect target that was not requested
LastTargetRefused ==
    \/ f_result.error_reason = "too_many_redirects"
    \/ f_result.error_reason = "blocked_by_ssrf" /\ f_result.redirect_count > 0

\* C28: every returned FetchResult has success exactly when error_reason is
\* unset; success implies status 200 and at most 3 redirects; was_blocked
\* implies failure with status 401, 403, 429 or 451; redirect_count never
\* exceeds 4 and counts the redirect responses whose Location replaced the
\* current URL: one step at a time, and in the result it is the number of
\* targets requested, plus one when the last target was refused.
C28_FetchResultConsistent ==
    /\ [](f_pc = "done" =>
            /\ ResultIsConsistent
            /\ f_result.redirect_count =
                  RedirectsRequested + (IF LastTargetRefused THEN 1 ELSE 0))
    /\ [][redirect_count' # redirect_count =>
            /\ redirect_count' = redirect_count + 1
            /\ f_pc = "await"
            /\ f_resp'.status \in RedirectStatuses
            /\ current_url' = urljoin(current_url, f_resp'.location)]_vars

\* the second redirect leads to a URL that fails validation
C28_Witness ==
    /\ f_pc = "done"
    /\ f_result.error_reason = "blocked_by_ssrf"
    /\ f_result.redirect_count = 2
    /\ Len(gets) = 2

----------------------------------------------------------------------------
(* Claims about ReputationService.find_similar_brands and get_brand_similarity_score *)

\* the first label of the candidate's host as find_similar_brands reads it
CandidateLabel == StripWww(b_domain.host)[1]

CandidateHasSuspiciousTld ==
    _is_suspicious_tld(LastLabel(Tail(_extract_etld1_robust(b_domain))))

IsEditDistanceLookalike(hit) ==
    hit.type = "lookalike" /\ "char_overlap" \in DOMAIN hit.metadata

CandidateHasExtraSignal ==
    \/ CandidateHasSuspiciousTld
    \/ LetterRuns(_normalize_label_robust(CandidateLabel), 1, << >>) \cap impersonation_keywords # {}
    \/ has_auth_path(b_domain)

\* a dictionary word followed by a non-keyword, on a normal TLD, no path
PlainCompounds ==
    {Candidate(<<label, <<"c","o","m">>>>, << >>, << >>) :
        label \in {<<"a","p","p","l","e","d","a","i","l","y">>, <<"t","a","r","g","e","t","n","e","w","s">>, <<"c","h","a","s","e","r","e","w","a","r","d","s">>}}

\* C9: a match of type exact_match_different_tld, or a lookalike found by edit
\* distance, against a dictionary-word brand is returned only for a candidate
\* with a suspicious TLD, an impersonation-keyword token or an auth path; and
\* appledaily.com, targetnews.com and chaserewards.com yield an empty result.
C9_DictionaryBrandsNeedSignal ==
    b_pc # "start" =>
        /\ \A i \in 1..Len(b_similar) :
              (/\ b_similar[i].brand \in dictionary_word_brands
               /\ (b_similar[i].type = "exact_match_different_tld"
                   \/ IsEditDistanceLookalike(b_similar[i])))
              => CandidateHasExtraSignal
        /\ (b_domain \in PlainCompounds => b_similar = << >>)

\* chase on a normal TLD without keyword or auth path: the exact match is dropped
C9_Witness ==
    /\ b_pc = "found"
    /\ Lower(CandidateLabel) = <<"c","h","a","s","e">>
    /\ ~CandidateHasExtraSignal
    /\ _extract_etld1_robust(b_domain) # <<<<"c","h","a","s","e">>, <<"c","o","m">>>>
    /\ b_similar = << >>

\* what C10 promises for brand b: top match and score
ExactMatchOutcome(b) ==
    /\ b_similar # << >>
    /\ b_similar[1].brand_domain = b
    /\ b_similar[1].type = "exact_match_different_tld"
    /\ b_similar[1].distance = 0
    /\ (b_pc = "scored" =>
           /\ b_score.score = 4
           /\ b_score.reasons = <<"brand_impersonation_high_risk", "suspicious_domain">>)

\* C10 as stated: a candidate whose normalized label equals a brand's name and
\* whose TLD is suspicious gets that brand as top match, exact_match_different_tld
\* at distance 0, and score 4 with the two reasons.
C10_Original ==
    b_pc # "start" =>
        \A b \in brand_domains :
            (_normalize_label_robust(CandidateLabel) = b[1] /\ CandidateHasSuspiciousTld)
            => ExactMatchOutcome(b)

\* C10: a candidate whose label, lower-cased as written, is a brand's name, whose
\* normalized label is that name too, and whose TLD is suspicious gets that
\* brand as top match, exact_match_different_tld at distance 0, and score 4
\* with reasons brand_impersonation_high_risk and suspicious_domain.
C10_ExactMatchOnSuspiciousTld ==
    b_pc # "start" =>
        \A b \in brand_domains :
            (/\ Lower(CandidateLabel) = b[1]
             /\ _normalize_label_robust(CandidateLabel) = b[1]
             /\ CandidateHasSuspiciousTld)
            => ExactMatchOutcome(b)

\* Chase.tk and the like, scored
C10_Witness ==
    /\ b_pc = "scored"
    /\ \E b \in brand_domains :
          /\ Lower(CandidateLabel) = b[1]
          /\ _normalize_label_robust(CandidateLabel) = b[1]
          /\ CandidateLabel # b[1]
    /\ CandidateHasSuspiciousTld
    /\ b_score.score = 4

\* the input has an auth path (/login, /signin, ... or such a query key)
CandidateHasAuthPath == has_auth_path(b_domain)

\* the best match is a lookalike at distance <= 1
BestIsCloseLookalike ==
    /\ b_similar # << >>
    /\ b_similar[1].type = "lookalike"
    /\ b_similar[1].distance <= 1

\* C11: when the best match is a lookalike with distance <= 1 on a
\* non-suspicious TLD, get_brand_similarity_score returns 2 if the input has no
\* auth path and 4 with reason auth_path if it has one; the score it returns
\* never exceeds 4.
C11_LookalikeAuthPathEscalation ==
    b_pc = "scored" =>
        /\ b_score.score <= 4
        /\ (BestIsCloseLookalike /\ ~CandidateHasSuspiciousTld) =>
              IF CandidateHasAuthPath
              THEN /\ b_score.score = 4
                   /\ \E i \in 1..Len(b_score.reasons) : b_score.reasons[i] = "auth_path"
              ELSE /\ b_score.score = 2
                   /\ \A i \in 1..Len(b_score.reasons) : b_score.reasons[i] # "auth_path"

\* g00gle.com/Login and the like, scored 4 with reason auth_path
C11_Witness ==
    /\ b_pc = "scored"
    /\ BestIsCloseLookalike
    /\ ~CandidateHasSuspiciousTld
    /\ CandidateHasAuthPath
    /\ b_score.score = 4
    /\ b_score.reasons[Len(b_score.reasons)] = "auth_path"

\* C12: when the best match is a lookalike with distance <= 1 and the
\* candidate's TLD is suspicious, get_brand_similarity_score returns 4 even
\* without an auth path.
C12_LookalikeSuspiciousTldIsDanger ==
    (b_pc = "scored" /\ BestIsCloseLookalike /\ CandidateHasSuspiciousTld) =>
        b_score.score = 4

\* brand_domain is named in the candidate's label next to an impersonation
\* keyword, and the candidate's eTLD+1 is not official for it
NamedWithKeyword(brand_domain) ==
    LET tokens == LetterRuns(_normalize_label_robust(CandidateLabel), 1, << >>)
        etld1  == _extract_etld1_robust(b_domain)
    IN  /\ _normalize_label_robust(brand_domain[1]) \in tokens
        /\ tokens \cap impersonation_keywords # {}
        /\ etld1 # brand_domain
        /\ etld1 \notin official_domains(brand_domain)

\* the result holds a brand_with_keywords match at distance 0 for brand_domain
HasKeywordMatch(brand_domain) ==
    \E i \in 1..Len(b_similar) :
        /\ b_similar[i].brand_domain = brand_domain
        /\ b_similar[i].type = "brand_with_keywords"
        /\ b_similar[i].distance = 0

\* the score C13 promises
KeywordMatchScore ==
    b_pc = "scored" => b_score.score = (IF CandidateHasSuspiciousTld THEN 4 ELSE 2)

\* C13 as stated: every brand named with a keyword in the label (eTLD+1 not
\* official for it) has a brand_with_keywords match at distance 0 in the
\* result, and the score is 2 on a non-suspicious TLD, 4 on a suspicious one.
C13_Original ==
    b_pc # "start" =>
        \A b \in brand_domains :
            NamedWithKeyword(b) => (HasKeywordMatch(b) /\ KeywordMatchScore)

\* C13: when no more than three brands are named with a keyword in the label,
\* each of them has a brand_with_keywords match at distance 0 in the result;
\* when more are, the result holds such matches for three of them; either way
\* the score is 2 on a non-suspicious TLD and 4 on a suspicious one.
C13_BrandWithKeywords ==
    b_pc # "start" =>
        LET named == {b \in brand_domains : NamedWithKeyword(b)}
        IN  named # {} =>
              /\ KeywordMatchScore
              /\ Cardinality(named) <= 3 => \A b \in named : HasKeywordMatch(b)
              /\ Cardinality(named) > 3 =>
                    /\ Len(b_similar) = 3
                    /\ \A i \in 1..3 : /\ b_similar[i].brand_domain \in named
                                       /\ HasKeywordMatch(b_similar[i].brand_domain)

\* microsoft--support.co.uk and the like, scored 2
C13_Witness ==
    /\ b_pc = "scored"
    /\ \E b \in brand_domains : NamedWithKeyword(b) /\ HasKeywordMatch(b)
    /\ \E i \in 1..(Len(CandidateLabel) - 1) :
          CandidateLabel[i] = "-" /\ CandidateLabel[i + 1] = "-"
    /\ ~CandidateHasSuspiciousTld
    /\ b_score.score = 2

\* C14: find_similar_brands returns an empty result for every candidate whose
\* label consists only of digits, whatever the TLD.
C14_DigitLabelsNeverMatch ==
    (b_pc # "start" /\ \A i \in 1..Len(CandidateLabel) : CandidateLabel[i] \in Digits09)
        => b_similar = << >>

\* C22: find_similar_brands returns at most 3 matches, ordered by distance
\* ascending and then confidence descending, and they are the first 3 of all
\* per-brand hits under that order.
C22_TopThreeSorted ==
    b_pc \in {"found", "scored"} =>
        LET hits == AllHits(b_domain)
            returned == {b_similar[i] : i \in 1..Len(b_similar)}
            InOrder(a, b) == \/ a.distance < b.distance
                             \/ a.distance = b.distance /\ a.confidence >= b.confidence
        IN  /\ Len(b_similar) <= 3
            /\ Len(b_similar) = Min(3, Cardinality(hits))
            /\ Cardinality(returned) = Len(b_similar)
            /\ returned \subseteq hits
            /\ \A i, j \in 1..Len(b_similar) : i < j => InOrder(b_similar[i], b_similar[j])
            /\ \A left \in hits \ returned : \A kept \in returned : InOrder(kept, left)

\* four hits with different keys, of which three are returned
C22_Witness ==
    /\ b_pc = "found"
    /\ Cardinality(AllHits(b_domain)) > 3
    /\ Len(b_similar) = 3
    /\ b_similar[1].distance < b_similar[3].distance
    /\ b_similar[1].confidence > b_similar[3].confidence

\* C23: every match returned by find_similar_brands has confidence within
\* [0, 0.99] (confidence is held in thousandths).
C23_ConfidenceWithinRange ==
    b_pc \in {"found", "scored"} =>
        \A i \in 1..Len(b_similar) :
            b_similar[i].confidence >= 0 /\ b_similar[i].confidence <= 990

\* the first branch of the loop body that applies to a brand and the candidate
FirstBranch(brand_domain) ==
    LET c          == Parsed(b_domain)
        brand_norm == _normalize_label_robust(brand_domain[1])
    IN  IF _confusable_exact(c.label_raw, brand_domain[1], c.norm, brand_norm)
        THEN "confusable_exact"
        ELSE IF c.norm = brand_norm /\ c.etld1 # brand_domain
        THEN "exact_match_different_tld"
        ELSE IF _contains_brand_with_keywords(c.tokens, brand_norm)
        THEN "brand_with_keywords"
        ELSE "edit_distance"

\* the exact match of the candidate with a brand is dropped by the dictionary-word rule
ExactMatchSuppressed(brand_domain) ==
    /\ ~SkipOfficial(Parsed(b_domain).etld1, brand_domain)
    /\ FirstBranch(brand_domain) = "exact_match_different_tld"
    /\ NeedsExtraSignal(_normalize_label_robust(brand_domain[1]), Parsed(b_domain))

\* C29: find_similar_brands produces at most one match per brand domain, of the
\* first branch that applies in the order confusable-exact, exact match on a
\* different eTLD+1, brand + keywords, edit-distance lookalike; a brand whose
\* exact match the dictionary-word rule dropped has no match at all, and an
\* edit-distance lookalike has 0 < distance <= threshold.
C29_OneMatchPerBrandInBranchOrder ==
    b_pc \in {"found", "scored"} =>
        LET hits == AllHits(b_domain) \cup {b_similar[i] : i \in 1..Len(b_similar)}
            c    == Parsed(b_domain)
        IN  /\ \A i, j \in 1..Len(b_similar) :
                  i # j => b_similar[i].brand_domain # b_similar[j].brand_domain
            /\ \A g, h \in hits : g.brand_domain = h.brand_domain => g = h
            /\ \A h \in hits :
                  LET branch     == FirstBranch(h.brand_domain)
                      brand_norm == _normalize_label_robust(h.brand_domain[1])
                  IN  /\ h.brand_domain \in brand_domains
                      /\ ~ExactMatchSuppressed(h.brand_domain)
                      /\ branch = "confusable_exact" =>
                            /\ h.type = "lookalike"
                            /\ h.metadata.similarity_type = "confusable_substitution"
                      /\ branch \in {"exact_match_different_tld", "brand_with_keywords"} =>
                            h.type = branch
                      /\ branch = "edit_distance" =>
                            /\ h.type = "lookalike"
                            /\ h.metadata.similarity_type # "confusable_substitution"
                            /\ h.distance = _levenshtein_distance(c.slim, brand_norm)
                            /\ 0 < h.distance
                            /\ h.distance <= _get_distance_threshold(brand_norm, c.suspicious_tld)

\* two brands match the candidate, each once, by edit distance
C29_Witness ==
    /\ b_pc = "found"
    /\ Len(b_similar) >= 2
    /\ \E i \in 1..Len(b_similar) :
          /\ FirstBranch(b_similar[i].brand_domain) = "edit_distance"
          /\ b_similar[i].distance = 2

\* a dictionary-word brand is named exactly, without any other signal: no match
C29_SuppressedWitness ==
    /\ b_pc = "found"
    /\ \E brand_domain \in brand_domains : ExactMatchSuppressed(brand_domain)
    /\ b_similar = << >>

\* the brands matched by a returned list, each with its match type
BrandsAndTypes(similar) == {<<similar[i].brand_domain, similar[i].type>> : i \in 1..Len(similar)}

\* the candidate with its host replaced by its registrable domain
RegistrableCandidate ==
    Candidate(_extract_etld1_robust(b_domain), b_domain.path, b_domain.query)

\* C30: find_similar_brands(h) returns the same matched brands and match types
\* as find_similar_brands applied to the eTLD+1 of h: labels in front of the
\* registrable domain do not change the outcome.
C30_SubdomainsDoNotMatter ==
    b_pc \in {"found", "scored"} =>
        \E similar \in find_similar_brands(RegistrableCandidate) :
            BrandsAndTypes(similar) = BrandsAndTypes(b_similar)

----------------------------------------------------------------------------
(* Claims about the data of ReputationService and its readers *)

\* the order of the verdicts
VerdictRank(verdict) == CASE verdict = "ok" -> 0 [] verdict = "warning" -> 1 [] verdict = "danger" -> 2

\* C15: score_to_verdict maps the score with the thresholds configured in the
\* instance it is called on (defaults danger 4, warning 2): score >= danger
\* gives danger, otherwise score >= warning gives warning, otherwise ok; under
\* those thresholds a higher score never gets a lower verdict.
C15_ScoreToVerdict ==
    (q_pc = "returned" /\ q_result.op = "score_to_verdict") =>
        LET configured == q_result.heuristic_weights
            thresholds == IF "thresholds" \in DOMAIN configured THEN configured.thresholds
                          ELSE [danger |-> 4, warning |-> 2]
            danger     == IF "danger" \in DOMAIN thresholds THEN thresholds.danger ELSE 4
            warning    == IF "warning" \in DOMAIN thresholds THEN thresholds.warning ELSE 2
        IN  /\ q_result.value = (IF q_arg >= danger THEN "danger"
                                 ELSE IF q_arg >= warning THEN "warning" ELSE "ok")
            /\ \A higher \in ReaderScores :
                  higher >= q_arg =>
                      VerdictRank(score_to_verdict(configured, higher))
                          >= VerdictRank(q_result.value)

\* score 4 under reloaded thresholds danger 5, warning 3: a warning
C15_Witness ==
    /\ q_pc = "returned"
    /\ q_result.op = "score_to_verdict"
    /\ q_result.heuristic_weights = [thresholds |-> [danger |-> 5, warning |-> 3]]
    /\ q_arg = 4
    /\ q_result.value = "warning"

----------------------------------------------------------------------------
(* Claims about Tier0Analyzer.analyze *)

\* get_domain_score of the normalized host of the URL under analysis
AnalyzedDomainScore == get_domain_score(normalize_url(a_url).domain)

\* C1: when the domain reputation score of the normalized host is <= -2, analyze
\* enters no stage after the domain stage, and it returns verdict 'ok' with the
\* single reason 'reputable_domain' and the domain score as score, whatever
\* fetch_result, content_excerpt, path and brand resemblance come with the URL.
C1_ReputableDomainEarlyExit ==
    (a_pc # "idle" /\ AnalyzedDomainScore <= 0 - 2) =>
        /\ a_pc \in {"start", "except", "done"}
        /\ a_pc = "done" =>
              /\ a_result.verdict = "ok"
              /\ a_result.reasons = {"reputable_domain"}
              /\ a_result.score = AnalyzedDomainScore
              /\ ~a_result.escalate_to_tier1

\* a reputable host with more than 3 subdomain labels, over http, with a slow
\* fetch result and a content excerpt: the result is still 'ok'
C1_Witness ==
    /\ a_pc = "done"
    /\ AnalyzedDomainScore <= 0 - 2
    /\ Len(normalize_url(a_url).domain) - 2 > 3
    /\ a_url.scheme = <<"h", "t", "t", "p">>
    /\ a_fetch.present /\ a_fetch.fetch_time_ms > 10000
    /\ ~a_content.empty
    /\ a_result.verdict = "ok"


\* C16: analyze sets escalate_to_tier1 whenever the final verdict is warning,
\* whenever a reason is a brand-impersonation signal, and whenever the score is
\* 1 to 3 with a financial- or health-sensitive reason.
C16_EscalationRule ==
    a_pc = "done" =>
        ((\/ a_result.verdict = "warning"
          \/ a_result.reasons \cap BrandReasons # {}
          \/ /\ a_result.score \in 1..3
             /\ a_result.reasons \cap {"financial_verification_request",
                                       "unverified_health_claims"} # {})
         => a_result.escalate_to_tier1)


\* what a stage adds to the score according to C17
StageScore(r) == IF r.raised THEN 0 ELSE r.score

\* C17: once the domain score has been computed, a stage that raises an
\* exception contributes 0 to the score and adds no reason: the final score is
\* the domain score plus the scores of the stages that completed.
C17_FailedStageContributesNothing ==
    LET url_info == normalize_url(a_url)
        content  == IF a_content.empty THEN Returned(0, << >>) ELSE ContentBody(a_content)
        tech     == IF a_fetch.present THEN _analyze_technical_indicators(a_fetch, url_info)
                    ELSE Returned(0, << >>)
    IN  (a_pc = "done" /\ ~_analyze_domain(url_info).raised /\ a_domain_score > 0 - 2) =>
            /\ \E brand \in _analyze_brand_similarity(url_info) :
                  a_result.score = a_domain_score
                                   + StageScore(_analyze_url_structure(url_info))
                                   + StageScore(brand) + StageScore(content) + StageScore(tech)
            /\ content.raised =>
                  a_result.reasons \cap {"content_analysis_error", "analysis_error"} = {}


\* C18: analyze never raises: whatever the URL (malformed and empty ones
\* included), the fetch_result and the content_excerpt, the call is at one of
\* its steps (each of which has a next step) or has returned, never left by an
\* exception; what it returns is an AnalysisResult whose verdict is ok, warning
\* or danger, with its reasons.
C18_AnalyzeNeverRaises ==
    a_pc # "idle" =>
        /\ a_pc \in {"start", "url", "brand", "content", "tech", "verdict", "except", "done"}
        /\ a_pc = "done" =>
              /\ a_result.verdict \in {"ok", "warning", "danger"}
              /\ IsFiniteSet(a_result.reasons)

\* a URL whose port cannot be parsed, or the empty URL, with a fetch result and
\* content: a result all the same
C18_Witness ==
    /\ a_pc = "done"
    /\ PortRaises(a_url) \/ a_url = EmptyUrl
    /\ a_fetch.present
    /\ ~a_content.empty
    /\ a_result.verdict \in {"ok", "warning", "danger"}


\* the analyzed URL as "host/path", the form in which get_brand_similarity_score
\* sees an auth path
AnalyzedHostAndPath == Candidate(normalize_url(a_url).domain, a_url.path, << >>)

\* the best brand match of the analyzed host is a lookalike
BestMatchIsLookalike ==
    /\ normalize_url(a_url).domain # << >>
    /\ \A similar_brands \in find_similar_brands(AnalyzedHostAndPath) :
          similar_brands # << >> /\ similar_brands[1].type = "lookalike"

\* C24: when the best brand match of the analyzed URL is a lookalike and the
\* URL has an auth path, the brand-similarity stage of analyze adds 4 to the
\* score and the reason auth_path.
C24_AnalyzeAppliesPathEscalation ==
    [][(/\ a_pc = "brand" /\ a_pc' = "content"
        /\ BestMatchIsLookalike
        /\ has_auth_path(AnalyzedHostAndPath))
       => (/\ a_score' = a_score + 4
           /\ "auth_path" \in Range(a_reasons'))]_vars

\* C26: for a host with more than 3 subdomain levels whose domain is not
\* highly reputable, analyze adds the excessive-subdomains weight and the
\* reason excessive_subdomains, and derives the verdict from the score.
C26_ExcessiveSubdomainsCounted ==
    (/\ a_pc = "done"
     /\ Len(normalize_url(a_url).domain) - 2 > 3
     /\ AnalyzedDomainScore > 0 - 2)
    => /\ "excessive_subdomains" \in a_result.reasons
       /\ a_result.score > AnalyzedDomainScore
       /\ a_result.verdict = score_to_verdict(a_weights, a_result.score)

\* C27: every AnalysisResult that analyze returns, from the normal path, the
\* early exit or the error fallback, has the verdict that score_to_verdict
\* gives for its score under the thresholds in force.
C27_VerdictMatchesScore ==
    a_pc = "done" => a_result.verdict = score_to_verdict(a_weights, a_result.score)

----------------------------------------------------------------------------
(* Claims about the reload of ReputationService *)

\* get_domain_score on tables that are whole
DomainScoreFrom(store, domain) ==
    LET parts == StripWww(LowerAll(domain))
    IN  IF domain = << >> THEN 0
        ELSE IF parts \in DOMAIN store.domain_scores THEN store.domain_scores[parts]
        ELSE IF Len(parts) > 2 /\ LastN(parts, 2) \in DOMAIN store.domain_scores
        THEN store.domain_scores[LastN(parts, 2)]
        ELSE IF parts[Len(parts)] \in store.suspicious_tlds THEN 2
        ELSE 0

\* every data file can be read when the reload reads it
FilesReadable == \A attr \in DOMAIN s_files : s_files[attr].kind # "corrupt"

\* the dataset after the reload, and the brand set it builds
PostStore == Loaded(s_files, "new")
PostBrands ==
    LET brand_categories == FileValue(s_files, "brand_categories")
    IN  BrandsAfter(brand_categories, Len(BrandList(brand_categories)))

\* C19: a reader running concurrently with a reload observes either the
\* complete pre-reload dataset or the complete post-reload dataset: what it
\* returns is what it returns on one of the two, and it does not raise.
C19_ReadersSeeWholeDataset ==
    (q_pc = "returned" /\ FilesReadable) =>
        /\ q_result.raised = "none"
        /\ q_result.op = "get_domain_score" =>
              q_result.value \in {DomainScoreFrom(PreStore, q_arg), DomainScoreFrom(PostStore, q_arg)}
        /\ q_result.op = "find_similar_brands" =>
              q_result.value \in {PreBrands, PostBrands}
        /\ q_result.op = "score_to_verdict" =>
              q_result.value \in {score_to_verdict(PreStore.heuristic_weights, q_arg),
                                  score_to_verdict(PostStore.heuristic_weights, q_arg)}

\* C25: get_domain_score resolves in a fixed order: the empty domain scores 0;
\* otherwise, after lower-casing and stripping a leading 'www.', the score of
\* the exact domain if it has an entry; otherwise the score of the parent
\* domain (the last two of more than two labels) if it has an entry;
\* otherwise 2 if the final label is a suspicious TLD; otherwise 0.
C25_DomainScoreOrder ==
    (q_pc = "returned" /\ q_result.op = "get_domain_score" /\ l_pc = "idle") =>
        LET d       == StripWww(LowerAll(q_arg))
            scores  == PreStore.domain_scores
            exact   == q_arg # << >> /\ d \in DOMAIN scores
            parent  == q_arg # << >> /\ Len(d) > 2 /\ LastN(d, 2) \in DOMAIN scores
            tldrisk == q_arg # << >> /\ d[Len(d)] \in PreStore.suspicious_tlds
        IN  /\ q_result.raised = "none"
            /\ q_arg = << >> => q_result.value = 0
            /\ exact => q_result.value = scores[d]
            /\ (~exact /\ parent) => q_result.value = scores[LastN(d, 2)]
            /\ (~exact /\ ~parent /\ tldrisk) => q_result.value = 2
            /\ (q_arg # << >> /\ ~exact /\ ~parent /\ ~tldrisk) => q_result.value = 0

\* an exact entry that differs from its parent's entry is the one returned
C25_Witness ==
    /\ q_pc = "returned"
    /\ l_pc = "idle"
    /\ q_result.op = "get_domain_score"
    /\ q_arg = mail_google_com
    /\ q_result.value = 0 - 1
    /\ PreStore.domain_scores[google_com] = 0 - 2

\* the seven attributes readers see, with the contents of the brand set
Visible(store, brands) ==
    <<store.reputable_domains, store.brand_categories, store.suspicious_indicators,
      store.heuristic_weights, store.domain_scores, brands, store.suspicious_tlds>>

\* C20: when a reload fails (load_all_data returns False because a data file
\* cannot be read or parsed), every dataset and derived lookup table visible
\* to readers is as it was before the reload began.
C20_FailedReloadKeepsData ==
    (l_pc = "returned" /\ l_result.outcome = "failed") =>
        Visible(s_store, SetContents(s_store.brand_domains)) = Visible(PreStore, PreBrands)

----------------------------------------------------------------------------
(* Claims about URLNormalizer.normalize_url *)

\* C21: normalize_url is idempotent: normalizing the normalized_url of a URL
\* yields the same normalized_url.
C21_NormalizeIdempotent ==
    n_pc = "twice" => n_twice = n_once

====
